---- MODULE Spec2Model ----
(***************************************************************************)
(* Model of the rate limiter (src/src/lib/rate-limit.ts), of the store     *)
(* client it talks to (src/src/lib/redis.ts) and of the key-value cache    *)
(* (src/src/lib/cache.ts and its store-backed revision).                   *)
(*                                                                         *)
(* Time is the millisecond clock Date.now() reads; it advances by Tick,    *)
(* also between the awaited store calls of one check.  Every server        *)
(* process has its own memoryStore; redisStore is the one store all        *)
(* processes share.  Windows and ceilings are scaled down to a few ticks.  *)
(***************************************************************************)
EXTENDS Integers, Sequences, FiniteSets, TLC

\* ---------------------------------------------------------------- bounds
MaxTime == 2        \* the clock stops advancing here
NumProcs == 2       \* server processes
MaxWindowMs == 1    \* largest windowMs a constructed policy carries
MaxCeiling == 1     \* largest max a constructed policy carries
MaxCalls == 2       \* check calls admitted on one key within one window
MaxTtl == 1         \* largest ttl argument handed to a cache set

Procs == 1..NumProcs
NoTime == -1        \* "no timestamp" (an absent entry, a key without expiry)

\* ---------------------------------------------------------------- requests
\* A request as the limiter sees it: the x-forwarded-for header (a list of
\* addresses, empty when the header is missing) and req.ip ("" when unset).
RequestA == [forwarded |-> <<"a", "b">>, ip |-> ""]
RequestB == [forwarded |-> <<>>, ip |-> "b"]
RequestU == [forwarded |-> <<>>, ip |-> ""]

\* An upload request of the signed-in user "u1" (user.id of the session's user).
RequestV == [forwarded |-> <<"a">>, ip |-> "", user |-> "u1"]

ClientIds == {"a", "b", "unknown"}

\* forwarded ? forwarded.split(',')[0] : req.ip || 'unknown'
clientIp(req) ==
    IF Len(req.forwarded) > 0 THEN Head(req.forwarded)
    ELSE IF req.ip # "" THEN req.ip
    ELSE "unknown"

getDefaultKey(req) == <<"rate_limit", clientIp(req)>>

authKeyGenerator(req) == <<"auth", clientIp(req)>>

\* keyGenerator: () => `video_upload:${user.id}`
videoKeyGenerator(req) == <<"video_upload", req.user>>

keyOf(lim, req) ==
    IF lim.keyGenerator = "auth" THEN authKeyGenerator(req)
    ELSE IF lim.keyGenerator = "video_upload" THEN videoKeyGenerator(req)
    ELSE getDefaultKey(req)

Keys == {"rate_limit", "auth"} \X ClientIds

\* ---------------------------------------------------------------- state
VARIABLES
    now,          \* Date.now()
    redis,        \* TRUE when the store client is configured (redis !== null)
    limiters,     \* the limiters rateLimit(options) has returned so far
    memoryStore,  \* [Procs -> Map from key to entry]: each process's Map
    redisStore,   \* the shared store's counters: a map from key to entry
    pc,           \* [Procs -> position of the process's pending check call]
    call,         \* [Procs -> locals of the pending check call]
    lastResult,   \* what the check call that just settled gave its caller
    memHist,      \* history: per process and key, the window being counted
    redisHist,    \* history: per key, the window being counted in the store
    isoMem,       \* history: per process, each policy's Map had it a Map of its own
    isoRedis,     \* history: each policy's counters had it a store of its own
    production,   \* process.env.NODE_ENV === 'production'
    revision,     \* which cache module is deployed: "map" (Cache) or "store"
    cacheStore,   \* [Namespaces -> Map from key to item]: one process's cache Maps
    redisKV,      \* the shared store's strings: a map from <<namespace, key>>
    cacheResult,  \* what the cache operation that just settled gave its caller
    written,      \* history: per namespace and key, the last set not yet removed
    handler,      \* [Procs -> the video upload POST the process is serving]
    response,     \* the response the POST that just returned gave its client
    wrapped,      \* [Procs -> the withCache call the process has pending]
    wrapResult,   \* what the withCache call that just settled gave its caller
    layout,       \* the store's iteration order: the SCAN page each key lies on
    clearing,     \* the RedisCache.clear call in progress and its locals
    lastKey,      \* the cacheKeys call made last: builder, argument, key
    prevKey,      \* the cacheKeys call made before it
    slugUnique,   \* TRUE when the database rejects a second event with a stored slug
    events,       \* the Event table: a sequence of rows
    posts,        \* [Procs -> the POST /api/events the process is serving]
    postResponse, \* the response the POST /api/events that just returned gave
    buildTime,    \* isBuildTime(): a production build with no database to reach
    archiveResult, \* what the autoArchivePastEvents call that just settled returned
    coordinations, \* the Coordination table: a map from id to row
    shareResponse \* the response the share GET that just returned gave

cacheVars == <<production, revision, cacheStore, redisKV, cacheResult, written>>

handlerVars == <<handler, response>>

wrapVars == <<wrapped, wrapResult>>

clearVars == <<layout, clearing>>

keyVars == <<lastKey, prevKey>>

eventVars == <<slugUnique, events, posts, postResponse, buildTime, archiveResult>>

shareVars == <<coordinations, shareResponse>>

appVars == <<wrapVars, clearVars, keyVars, eventVars, shareVars>>

notWrap == <<clearVars, keyVars, eventVars, shareVars>>

notClear == <<wrapVars, keyVars, eventVars, shareVars>>

notKey == <<wrapVars, clearVars, eventVars, shareVars>>

notEvent == <<wrapVars, clearVars, keyVars, shareVars>>

notShare == <<wrapVars, clearVars, keyVars, eventVars>>

vars == <<now, redis, limiters, memoryStore, redisStore, pc, call, lastResult,
          memHist, redisHist, isoMem, isoRedis,
          production, revision, cacheStore, redisKV, cacheResult, written,
          handler, response, wrapped, wrapResult,
          layout, clearing, lastKey, prevKey,
          slugUnique, events, posts, postResponse, buildTime, archiveResult,
          coordinations, shareResponse>>

LimNames == {"custom", "auth", "api", "upload", "contact"}

isRedisEnabled == redis

\* Map entry { count, resetTime }; exists = FALSE is "no such key".
NoEntry == [exists |-> FALSE, count |-> 0, resetTime |-> NoTime]

\* Store key: an integer with an optional expiry (expires = NoTime: persistent).
NoRedisKey == [exists |-> FALSE, count |-> 0, expires |-> NoTime]

\* History of one key's current window: the check calls that reached the store
\* in it, the clock value at which the opening call reached the store (at), the
\* latest reset reported to a caller and the calls that returned success in it.
NoHist == [calls |-> 0, at |-> NoTime, reported |-> NoTime, granted |-> 0]

NoCall == [lim |-> "none", windowMs |-> 0, max |-> 0, key |-> <<"", "">>, now |-> 0,
           count |-> 0, idx |-> 0, at |-> NoTime, afterReset |-> FALSE, isoCount |-> 0]

NoResult == [status |-> "none", lim |-> "none", windowMs |-> 0, max |-> 0,
             key |-> <<"", "">>, at |-> 0, backend |-> "none",
             success |-> FALSE, limit |-> 0, remaining |-> 0, reset |-> 0,
             idx |-> 0, opened |-> NoTime, prevReset |-> NoTime, afterReset |-> FALSE,
             storeFailed |-> FALSE, fbSuccess |-> FALSE, fbRemaining |-> 0,
             isoSuccess |-> FALSE, isoRemaining |-> 0]

\* A POST in progress: where it stands and the RateLimitResult it was given.
NoHandler == [pc |-> "idle", limit |-> 0, remaining |-> 0]

\* A response: status, the Retry-After value, the header names set, whether
\* the form was parsed and the object uploaded, and whether the limiter had
\* denied the request.
NoResponse == [status |-> 0, retryAfter |-> 0, headers |-> {}, parsed |-> FALSE,
               uploaded |-> FALSE, denied |-> FALSE, reset |-> 0, at |-> 0]

\* ---------------------------------------------------------------- cache data
Namespaces == {"event", "user", "image", "api"}
CacheKeys == {"k1", "k2"}

\* Cached payloads: an object, null, and an object holding a Date (what the
\* database layer returns); "dateText" is what such an object parses back to.
Values == {"obj", "null", "date"}

\* Map item { value, expires }.
NoItem == [exists |-> FALSE, value |-> "null", expires |-> NoTime]

\* History of the last set(key, value, ttl) that returned: its value, the ttl
\* argument (0 for none given) and the clock value of the call.
NoWrite == [exists |-> FALSE, value |-> "null", ttl |-> 0, at |-> NoTime]

\* ---------------------------------------------------------------- pure code
MaxOf(a, b) == IF a >= b THEN a ELSE b

\* rateLimit(options): the backend is chosen once, when the limiter is built.
rateLimit(options) ==
    [name |-> options.name, windowMs |-> options.windowMs, max |-> options.max,
     keyGenerator |-> options.keyGenerator,
     backend |-> IF isRedisEnabled THEN "redis" ELSE "memory"]

\* memoryRateLimit with the ceiling test off by one (count > max).
memoryRateLimitOffByOne(current, t, windowMs, max) ==
    IF ~current.exists \/ current.resetTime < t
    THEN [entry |-> [exists |-> TRUE, count |-> 1, resetTime |-> t + windowMs],
          success |-> TRUE, remaining |-> max - 1, reset |-> t + windowMs]
    ELSE IF current.count > max
    THEN [entry |-> current,
          success |-> FALSE, remaining |-> 0, reset |-> current.resetTime]
    ELSE [entry |-> [current EXCEPT !.count = @ + 1],
          success |-> TRUE, remaining |-> max - (current.count + 1),
          reset |-> current.resetTime]

\* memoryRateLimit: one check against the Map entry `current` at clock value t.
\* Gives the entry to store and the RateLimitResult.
memoryRateLimit(current, t, windowMs, max) ==
    IF ~current.exists \/ current.resetTime < t
    THEN [entry |-> [exists |-> TRUE, count |-> 1, resetTime |-> t + windowMs],
          success |-> TRUE, remaining |-> max - 1, reset |-> t + windowMs]
    ELSE IF current.count >= max
    THEN [entry |-> current,
          success |-> FALSE, remaining |-> 0, reset |-> current.resetTime]
    ELSE [entry |-> [current EXCEPT !.count = @ + 1],
          success |-> TRUE, remaining |-> max - (current.count + 1),
          reset |-> current.resetTime]

\* The store's view of a key at clock value t: an expired key is gone.
redisLive(e, t) == e.exists /\ (e.expires = NoTime \/ t < e.expires)

\* INCR that loses the update: the count read is written back unchanged.
incrLost(e, t) ==
    IF redisLive(e, t) THEN e
    ELSE [exists |-> TRUE, count |-> 1, expires |-> NoTime]

\* INCR: atomic increment-and-read; a missing key counts from 0 and gets no expiry.
incr(e, t) ==
    IF redisLive(e, t) THEN [e EXCEPT !.count = @ + 1]
    ELSE [exists |-> TRUE, count |-> 1, expires |-> NoTime]

\* PEXPIRE key ms: sets the expiry of an existing key; ms <= 0 deletes it.
pexpire(e, t, ms) ==
    IF ~redisLive(e, t) THEN NoRedisKey
    ELSE IF ms <= 0 THEN NoRedisKey
    ELSE [e EXCEPT !.expires = t + ms]

\* PTTL: -2 for a missing key, -1 for a key without expiry, else the ms left.
pttl(e, t) ==
    IF ~redisLive(e, t) THEN -2
    ELSE IF e.expires = NoTime THEN -1
    ELSE e.expires - t

\* redisRateLimit after its three store calls: the RateLimitResult.
redisDecision(count, ttl, t, windowMs, max) ==
    LET reset == IF ttl > 0 THEN t + ttl ELSE t + windowMs
    IN  IF count > max
        THEN [success |-> FALSE, remaining |-> 0, reset |-> reset]
        ELSE [success |-> TRUE, remaining |-> max - count, reset |-> reset]

\* Map.get(key), with `none` standing for undefined; also the store's lookup.
mapGet(store, key, none) == IF key \in DOMAIN store THEN store[key] ELSE none

\* Map.set that replaces the whole Map by the one entry.
mapSetAlone(store, key, value) == [k \in {key} |-> value]

\* Map.set(key, value)
mapSet(store, key, value) ==
    [k \in DOMAIN store \cup {key} |-> IF k = key THEN value ELSE store[k]]

\* Map.delete(key); also the store's DEL.
mapDelete(store, key) == [k \in DOMAIN store \ {key} |-> store[k]]

\* The store after a command left key as e: a key that is gone is not kept.
storePut(store, key, e) ==
    IF e.exists THEN mapSet(store, key, e) ELSE mapDelete(store, key)

\* new Map()
EmptyMap == [k \in {} |-> NoEntry]

\* The history of `key` becomes h; the histories are kept beside the Maps and the
\* store, so what a Map or the store loses is not lost from them.
histSet(hist, key, h) ==
    [k \in DOMAIN hist \cup {key} |-> IF k = key THEN h ELSE hist[k]]

\* The window a stored entry stands for is still running at clock value t.
memLive(e, t) == e.exists /\ t <= e.resetTime

\* History step of a check call reaching the store at clock value t: it joins
\* the running window or opens the next one.
histAccess(h, live, t) ==
    IF live THEN [h EXCEPT !.calls = @ + 1]
    ELSE [calls |-> 1, at |-> t, reported |-> NoTime, granted |-> 0]

\* History step of a result returned for the window opened at `at`.
histReturn(h, at, success, reset) ==
    IF h.at # at THEN h
    ELSE [h EXCEPT !.reported = MaxOf(@, reset),
                   !.granted = IF success THEN @ + 1 ELSE @]

\* The isolation histories are kept when several policies are in use.
isoOn == Cardinality(limiters) > 1

\* One check of a policy against counters only it uses: INCR, and PEXPIRE at once
\* when the count is 1.
isoIncr(e, t, windowMs) ==
    LET e1 == incr(e, t)
    IN  IF e1.count = 1 THEN pexpire(e1, t, windowMs) ELSE e1

\* ---------------------------------------------------------------- actions
\* memoryRateLimit(options)(req): synchronous, on the calling process's Map.
\* Also the branch of redisRateLimit taken when the client is null.
MemoryCheck(p, lim, req) ==
    LET key == keyOf(lim, req)
        cur == mapGet(memoryStore[p], key, NoEntry)
        h   == mapGet(memHist[p], key, NoHist)
        live == memLive(cur, now)
        r   == memoryRateLimit(cur, now, lim.windowMs, lim.max)
        h1  == histAccess(h, live, now)
        iso == memoryRateLimit(mapGet(isoMem[p], <<lim.name, key>>, NoEntry),
                               now, lim.windowMs, lim.max)
    IN  /\ pc[p] = "idle"
        /\ lim.backend = "memory" \/ ~isRedisEnabled \/ ~redis
        /\ live => h.calls < MaxCalls
        /\ memoryStore' = [memoryStore EXCEPT ![p] = mapSet(@, key, r.entry)]
        /\ memHist' = [memHist EXCEPT ![p] =
                          histSet(@, key, histReturn(h1, h1.at, r.success, r.reset))]
        /\ lastResult' = [NoResult EXCEPT
              !.status = "ok", !.lim = lim.name, !.windowMs = lim.windowMs,
              !.max = lim.max, !.key = key, !.at = now, !.backend = "memory",
              !.success = r.success, !.limit = lim.max, !.remaining = r.remaining,
              !.reset = r.reset, !.idx = h1.calls, !.opened = h1.at,
              !.prevReset = h1.reported,
              !.afterReset = (h.reported # NoTime /\ h.reported < now),
              !.isoSuccess = iso.success, !.isoRemaining = iso.remaining]
        /\ isoMem' = IF isoOn
                      THEN [isoMem EXCEPT ![p] = mapSet(@, <<lim.name, key>>, iso.entry)]
                      ELSE isoMem
        /\ UNCHANGED <<now, redis, limiters, redisStore, pc, call, redisHist, isoRedis>>

\* Calls of other processes that have read the clock but not yet reached the store.
pendingIncr(key) == Cardinality({q \in Procs : pc[q] = "incr" /\ call[q].key = key})

\* redisRateLimit(options)(req) up to its first await: key and now are fixed.
RedisStart(p, lim, req) ==
    LET key == keyOf(lim, req)
    IN  /\ pc[p] = "idle"
        /\ lim.backend = "redis" /\ isRedisEnabled /\ redis
        /\ mapGet(redisHist, key, NoHist).calls + pendingIncr(key) < MaxCalls
        /\ call' = [call EXCEPT ![p] = [NoCall EXCEPT
              !.lim = lim.name, !.windowMs = lim.windowMs, !.max = lim.max,
              !.key = key, !.now = now]]
        /\ pc' = [pc EXCEPT ![p] = "incr"]
        /\ lastResult' = NoResult
        /\ UNCHANGED <<now, redis, limiters, memoryStore, redisStore, memHist, redisHist,
                       isoMem, isoRedis>>

\* const count = await redis.incr(key)
RedisIncr(p) ==
    LET c   == call[p]
        e   == mapGet(redisStore, c.key, NoRedisKey)
        h   == mapGet(redisHist, c.key, NoHist)
        e1  == incr(e, now)
        h1  == histAccess(h, redisLive(e, now), now)
        i1  == isoIncr(mapGet(isoRedis, <<c.lim, c.key>>, NoRedisKey), now, c.windowMs)
    IN  /\ pc[p] = "incr"
        /\ redisStore' = storePut(redisStore, c.key, e1)
        /\ redisHist' = histSet(redisHist, c.key, h1)
        /\ call' = [call EXCEPT ![p] = [c EXCEPT
              !.count = e1.count, !.idx = h1.calls, !.at = h1.at,
              !.afterReset = (h.reported # NoTime /\ h.reported < c.now),
              !.isoCount = i1.count]]
        /\ isoRedis' = IF isoOn THEN storePut(isoRedis, <<c.lim, c.key>>, i1)
                        ELSE isoRedis
        /\ pc' = [pc EXCEPT ![p] = IF e1.count = 1 THEN "pexpire" ELSE "pttl"]
        /\ lastResult' = NoResult
        /\ UNCHANGED <<now, redis, limiters, memoryStore, memHist, isoMem>>

\* if (count === 1) await redis.pexpire(key, windowMs)
RedisPexpire(p) ==
    LET c == call[p]
    IN  /\ pc[p] = "pexpire"
        /\ redisStore' = storePut(redisStore, c.key,
                              pexpire(mapGet(redisStore, c.key, NoRedisKey), now, c.windowMs))
        /\ pc' = [pc EXCEPT ![p] = "pttl"]
        /\ lastResult' = NoResult
        /\ UNCHANGED <<now, redis, limiters, memoryStore, call, memHist, redisHist,
                       isoMem, isoRedis>>

\* const ttl = await redis.pttl(key), then the decision is returned.
RedisPttl(p) ==
    LET c   == call[p]
        ttl == pttl(mapGet(redisStore, c.key, NoRedisKey), now)
        h   == mapGet(redisHist, c.key, NoHist)
        d   == redisDecision(c.count, ttl, c.now, c.windowMs, c.max)
        iso == redisDecision(c.isoCount, ttl, c.now, c.windowMs, c.max)
    IN  /\ pc[p] = "pttl"
        /\ redisHist' = histSet(redisHist, c.key, histReturn(h, c.at, d.success, d.reset))
        /\ lastResult' = [NoResult EXCEPT
              !.status = "ok", !.lim = c.lim, !.windowMs = c.windowMs,
              !.max = c.max, !.key = c.key, !.at = c.now, !.backend = "redis",
              !.success = d.success, !.limit = c.max, !.remaining = d.remaining,
              !.reset = d.reset, !.idx = c.idx, !.opened = c.at,
              !.prevReset = IF h.at = c.at THEN h.reported ELSE NoTime,
              !.afterReset = c.afterReset,
              !.isoSuccess = iso.success, !.isoRemaining = iso.remaining]
        /\ pc' = [pc EXCEPT ![p] = "idle"]
        /\ call' = [call EXCEPT ![p] = NoCall]
        /\ UNCHANGED <<now, redis, limiters, memoryStore, redisStore, memHist,
                       isoMem, isoRedis>>

\* The awaited store call rejects: nothing in redisRateLimit catches it, so the
\* promise the caller awaits rejects.  fbSuccess/fbRemaining record what
\* memoryRateLimit would have answered for this call.
StoreReject(p) ==
    LET c  == call[p]
        fb == memoryRateLimit(mapGet(memoryStore[p], c.key, NoEntry), c.now, c.windowMs, c.max)
    IN  /\ pc[p] \in {"incr", "pexpire", "pttl"}
        /\ lastResult' = [NoResult EXCEPT
              !.status = "threw", !.lim = c.lim, !.windowMs = c.windowMs,
              !.max = c.max, !.key = c.key, !.backend = "redis", !.storeFailed = TRUE,
              !.fbSuccess = fb.success, !.fbRemaining = fb.remaining]
        /\ pc' = [pc EXCEPT ![p] = "idle"]
        /\ call' = [call EXCEPT ![p] = NoCall]
        /\ UNCHANGED <<now, redis, limiters, memoryStore, redisStore, memHist, redisHist,
                       isoMem, isoRedis>>

\* The store drops a key when its expiry is reached.
expireKeys(store, t) ==
    [k \in {x \in DOMAIN store : redisLive(store[x], t)} |-> store[k]]

\* A stored string: its payload and an optional expiry.
NoString == [exists |-> FALSE, payload |-> "", expires |-> NoTime]

NoCacheResult == [status |-> "none", op |-> "none", ns |-> "none", key |-> "none",
                  value |-> "null", flag |-> FALSE, count |-> 0, live |-> FALSE,
                  storeValue |-> "null", storeFlag |-> FALSE, storeCount |-> 0,
                  replied |-> FALSE, raw |-> ""]

NoWrapped == [pc |-> "idle", key |-> "none", ttl |-> 0, memo |-> FALSE]

NoWrapResult == [status |-> "none", key |-> "none", value |-> "null",
                 invoked |-> FALSE, memo |-> FALSE, memoValue |-> "null"]

NoClearing == [pc |-> "idle", ns |-> "none", cursor |-> 0, keysToDelete |-> {},
               requests |-> 0, emptyPage |-> FALSE, dirty |-> FALSE]

NoKey == [builder |-> "none", arg |-> "", key |-> ""]

NoPost == [pc |-> "idle", base |-> "", slug |-> "", counter |-> 0,
           status |-> "DRAFT", startAt |-> 0]

NoPostResponse == [status |-> 0, slug |-> ""]

NoArchiveResult == [status |-> "none", count |-> 0, at |-> 0, dbError |-> FALSE]

NoShareResponse == [status |-> 0, token |-> "", id |-> "none"]

\* One millisecond passes.
Tick ==
    /\ now < MaxTime
    /\ now' = now + 1
    /\ redisStore' = expireKeys(redisStore, now + 1)
    /\ isoRedis' = expireKeys(isoRedis, now + 1)
    /\ redisKV' = expireKeys(redisKV, now + 1)
    /\ lastResult' = NoResult
    /\ cacheResult' = NoCacheResult
    /\ response' = NoResponse
    /\ UNCHANGED <<redis, limiters, memoryStore, pc, call, memHist, redisHist, isoMem,
                   production, revision, cacheStore, written, handler>>
    /\ UNCHANGED appVars

\* ---------------------------------------------------------------- one policy
\* The options a caller may hand to rateLimit: a window and a ceiling of at
\* least one, no keyGenerator (getDefaultKey is used).
ValidOptions ==
    { [name |-> "custom", windowMs |-> w, max |-> m, keyGenerator |-> "default"] :
        w \in 1..MaxWindowMs, m \in 1..MaxCeiling }

\* Nothing stored, nothing in flight.
BlankState ==
    /\ now = 0
    /\ memoryStore = [p \in Procs |-> EmptyMap]
    /\ redisStore = EmptyMap
    /\ pc = [p \in Procs |-> "idle"]
    /\ call = [p \in Procs |-> NoCall]
    /\ lastResult = NoResult
    /\ memHist = [p \in Procs |-> EmptyMap]
    /\ redisHist = EmptyMap
    /\ isoMem = [p \in Procs |-> EmptyMap]
    /\ isoRedis = EmptyMap
    /\ cacheStore = [n \in Namespaces |-> EmptyMap]
    /\ redisKV = EmptyMap
    /\ cacheResult = NoCacheResult
    /\ written = EmptyMap
    /\ handler = [p \in Procs |-> NoHandler]
    /\ response = NoResponse
    /\ wrapped = [p \in Procs |-> NoWrapped]
    /\ wrapResult = NoWrapResult
    /\ clearing = NoClearing
    /\ lastKey = NoKey
    /\ prevKey = NoKey
    /\ posts = [p \in Procs |-> NoPost]
    /\ postResponse = NoPostResponse
    /\ archiveResult = NoArchiveResult
    /\ shareResponse = NoShareResponse

\* Nothing stored, no key has a place in the store's iteration order yet,
\* and the database tables are empty.
Blank ==
    /\ BlankState
    /\ layout = EmptyMap
    /\ slugUnique = FALSE
    /\ events = << >>
    /\ buildTime = FALSE
    /\ coordinations = EmptyMap

InitWith(optionSets) ==
    /\ Blank
    /\ redis \in BOOLEAN
    /\ \E os \in optionSets : limiters = { rateLimit(o) : o \in os }
    /\ production = FALSE
    /\ revision = "store"

Init == InitWith({ {o} : o \in ValidOptions })

\* The steps open to the processes of P serving the requests of R.
Step(P, R) ==
    \/ \E p \in P, lim \in limiters, req \in R :
          MemoryCheck(p, lim, req) /\ UNCHANGED <<cacheVars, handlerVars, appVars>>
    \/ \E p \in P, lim \in limiters, req \in R :
          RedisStart(p, lim, req) /\ UNCHANGED <<cacheVars, handlerVars, appVars>>
    \/ \E p \in P : RedisIncr(p) /\ UNCHANGED <<cacheVars, handlerVars, appVars>>
    \/ \E p \in P : RedisPexpire(p) /\ UNCHANGED <<cacheVars, handlerVars, appVars>>
    \/ \E p \in P : RedisPttl(p) /\ UNCHANGED <<cacheVars, handlerVars, appVars>>
    \/ \E p \in P : StoreReject(p) /\ UNCHANGED <<cacheVars, handlerVars, appVars>>
    \/ Tick

\* One policy, one client, every process.
Next == Step(Procs, {RequestA})

Spec == Init /\ [][Next]_vars

\* ---------------------------------------------------------------- several keys
\* One policy, two clients, one process.
\* The requests of two clients of the one policy.
KeyRequests == {RequestA, RequestB}

NextKeys == Step({1}, KeyRequests)

SpecKeys == Init /\ [][NextKeys]_vars

\* ---------------------------------------------------------------- named policies
\* The predefined limiters.  Windows and ceilings are scaled (5 minutes to one
\* tick; ceilings 50, 100, 50, 3 to 2, 3, 2, 1), their order kept.
authOptions == [name |-> "auth", windowMs |-> 1, max |-> 2, keyGenerator |-> "auth"]
apiOptions == [name |-> "api", windowMs |-> 2, max |-> 3, keyGenerator |-> "default"]
uploadOptions == [name |-> "upload", windowMs |-> 2, max |-> 2, keyGenerator |-> "default"]
contactOptions == [name |-> "contact", windowMs |-> 3, max |-> 1, keyGenerator |-> "default"]

InitPolicies == InitWith({ {authOptions, apiOptions, uploadOptions, contactOptions} })

NextPolicies == Step({1}, {RequestA})

SpecPolicies == InitPolicies /\ [][NextPolicies]_vars

\* ---------------------------------------------------------------- any options
\* rateLimit takes whatever numbers it is given: zero and negative ones too.
AnyOptions ==
    { [name |-> "custom", windowMs |-> w, max |-> m, keyGenerator |-> "default"] :
        w \in -1..MaxWindowMs, m \in -1..MaxCeiling }

InitAnyOptions == InitWith({ {o} : o \in AnyOptions })

NextAnyOptions == Step({1}, {RequestU})

SpecAnyOptions == InitAnyOptions /\ [][NextAnyOptions]_vars

\* ---------------------------------------------------------------- video upload
\* The limiter the POST builds: 10 uploads per 15 minutes and user, scaled to
\* one upload per window of three ticks.
videoUploadOptions ==
    [name |-> "videoUpload", windowMs |-> 3, max |-> 1, keyGenerator |-> "video_upload"]

\* The clock ticks of one second (the 1000 the handler divides by).
SecondMs == 1

\* Math.ceil(a / b) for b > 0
ceilDiv(a, b) == IF a >= 0 THEN (a + b - 1) \div b ELSE -((-a) \div b)

\* Math.ceil((rateLimitResult.reset - Date.now()) / 1000)
retryAfter(reset, t) == ceilDiv(reset - t, SecondMs)

\* POST up to the limiter call: the session and user lookups; without a session
\* or user the answer is 401.
UploadStart(p, authorized) ==
    /\ handler[p].pc = "idle" /\ pc[p] = "idle"
    /\ IF authorized
       THEN /\ handler' = [handler EXCEPT ![p] = [NoHandler EXCEPT !.pc = "limit"]]
            /\ response' = NoResponse
       ELSE /\ response' = [NoResponse EXCEPT !.status = 401]
            /\ UNCHANGED handler
    /\ lastResult' = NoResult
    /\ UNCHANGED <<now, redis, limiters, memoryStore, redisStore, pc, call,
                   memHist, redisHist, isoMem, isoRedis>>
    /\ UNCHANGED <<cacheVars, appVars>>

\* What the POST does with the outcome r of `await videoUploadRateLimit(req)`:
\* 429 on a denial, on to the form on success, 500 from the catch block when
\* the call threw; while the call is pending nothing.
uploadDecision(h, r, t) ==
    IF r.status = "ok" /\ ~r.success
    THEN [handler |-> NoHandler,
          response |-> [NoResponse EXCEPT
              !.status = 429, !.retryAfter = retryAfter(r.reset, t),
              !.headers = {"Retry-After", "X-RateLimit-Limit",
                           "X-RateLimit-Remaining", "X-RateLimit-Reset"},
              !.denied = TRUE, !.reset = r.reset, !.at = t]]
    ELSE IF r.status = "ok"
    THEN [handler |-> [pc |-> "admitted", limit |-> r.limit, remaining |-> r.remaining],
          response |-> NoResponse]
    ELSE IF r.status = "threw"
    THEN [handler |-> NoHandler, response |-> [NoResponse EXCEPT !.status = 500]]
    ELSE [handler |-> h, response |-> NoResponse]

\* const rateLimitResult = await videoUploadRateLimit(req), and the test of it.
UploadLimit(p) ==
    /\ handler[p].pc = "limit"
    /\ \/ \E lim \in limiters : MemoryCheck(p, lim, RequestV)
       \/ \E lim \in limiters : RedisStart(p, lim, RequestV)
       \/ RedisIncr(p)
       \/ RedisPexpire(p)
       \/ RedisPttl(p)
       \/ StoreReject(p)
    /\ LET d == uploadDecision(handler[p], lastResult', now)
       IN  /\ handler' = [handler EXCEPT ![p] = d.handler]
           /\ response' = d.response
    /\ UNCHANGED <<cacheVars, appVars>>

\* The ways the rest of the POST ends once the form is read: the status given.
UploadOutcomes ==
    [missingFile |-> 400, invalidFileType |-> 400, tooLarge |-> 413,
     unsupportedType |-> 400, awsMissing |-> 500, uploadFailed |-> 500, uploaded |-> 200]

\* POST after the limiter admitted the request: formData, the validations,
\* uploadBufferToS3 and the response.
\* The headers the 200 response carries.
RateLimitHeaders == {"X-RateLimit-Limit", "X-RateLimit-Remaining"}

UploadFinish(p, outcome) ==
    /\ handler[p].pc = "admitted"
    /\ response' = [NoResponse EXCEPT
          !.status = UploadOutcomes[outcome], !.parsed = TRUE,
          !.uploaded = (outcome = "uploaded"),
          !.headers = IF outcome = "uploaded"
                      THEN RateLimitHeaders ELSE {}]
    /\ handler' = [handler EXCEPT ![p] = NoHandler]
    /\ lastResult' = NoResult
    /\ UNCHANGED <<now, redis, limiters, memoryStore, redisStore, pc, call,
                   memHist, redisHist, isoMem, isoRedis>>
    /\ UNCHANGED <<cacheVars, appVars>>

InitUpload == InitWith({ {videoUploadOptions} })

NextUpload ==
    \/ \E p \in Procs, authorized \in BOOLEAN : UploadStart(p, authorized)
    \/ \E p \in Procs : UploadLimit(p)
    \/ \E p \in Procs, outcome \in DOMAIN UploadOutcomes : UploadFinish(p, outcome)
    \/ Tick

SpecUpload == InitUpload /\ [][NextUpload]_vars

\* ---------------------------------------------------------------- cache code
\* Which class backs eventCache, userCache, imageCache and apiCache.
cacheClass ==
    IF revision = "map" THEN "Cache"
    ELSE IF isRedisEnabled THEN "RedisCache" ELSE "MemoryCache"

\* DISABLE_IN_MEMORY_CACHE of the deployed module.
DISABLE_IN_MEMORY_CACHE ==
    IF revision = "map" THEN production ELSE production /\ isRedisEnabled

\* new Cache(600000), (300000), (1800000), (60000), scaled to a few ticks.
defaultTTL(ns) ==
    CASE ns = "event" -> 2 [] ns = "user" -> 1 [] ns = "image" -> 3 [] OTHER -> 1

\* ttl || this.defaultTTL (no ttl given is ttl = 0)
effectiveTtl(ttl, default) == IF ttl # 0 THEN ttl ELSE default

\* Cache.set / MemoryCache.set: the item stored.
mapCacheSet(value, ttl, default, t) ==
    [exists |-> TRUE, value |-> value, expires |-> t + effectiveTtl(ttl, default)]

\* get without the expiry test.
mapCacheGetNoExpiry(item, t) ==
    IF ~item.exists THEN [item |-> item, value |-> "null"]
    ELSE [item |-> item, value |-> item.value]

\* Cache.get / MemoryCache.get: the value returned (null for a miss) and the
\* item left in the Map (an expired item is deleted).
mapCacheGet(item, t) ==
    IF ~item.exists THEN [item |-> item, value |-> "null"]
    ELSE IF t > item.expires THEN [item |-> NoItem, value |-> "null"]
    ELSE [item |-> item, value |-> item.value]

\* Cache.has / MemoryCache.has
mapCacheHas(item, t) == IF item.exists THEN t <= item.expires ELSE FALSE

\* JSON.stringify(value)
stringify(value) ==
    CASE value = "obj" -> "{obj}"
      [] value = "date" -> "{dateText}"
      [] value = "dateText" -> "{dateText}"
      [] OTHER -> "null"

\* JSON.parse(raw): a Date does not come back as a Date.
parse(raw) ==
    CASE raw = "{obj}" -> "obj"
      [] raw = "{dateText}" -> "dateText"
      [] OTHER -> "null"

\* RedisCache.set: redis.set(k, JSON.stringify(value), { px: ttlMs })
redisCacheSet(value, ttl, default, t) ==
    [exists |-> TRUE, payload |-> stringify(value),
     expires |-> t + effectiveTtl(ttl, default)]

\* JSON.parse(raw) throws a SyntaxError: raw is not a JSON text.
parseThrows(raw) == raw \notin {"{obj}", "{dateText}", "null"}

\* return JSON.parse(raw) with no try around it.
jsonParseUnguarded(raw) ==
    IF parseThrows(raw) THEN [threw |-> TRUE, value |-> "null"]
    ELSE [threw |-> FALSE, value |-> parse(raw)]

\* try { return JSON.parse(raw) } catch { return null }
jsonParseGuarded(raw) ==
    IF parseThrows(raw) THEN [threw |-> FALSE, value |-> "null"]
    ELSE [threw |-> FALSE, value |-> parse(raw)]

\* RedisCache.get: redis.get, then if (!raw) return null, then the guarded
\* JSON.parse: whether the call threw and the value it returned.
redisCacheGetOutcome(str, t) ==
    IF ~redisLive(str, t) THEN [threw |-> FALSE, value |-> "null"]
    ELSE IF str.payload = "" THEN [threw |-> FALSE, value |-> "null"]
    ELSE jsonParseGuarded(str.payload)

\* RedisCache.get: the value returned.
redisCacheGet(str, t) == redisCacheGetOutcome(str, t).value

\* RedisCache.has: pttl > 0
redisCacheHas(str, t) == pttl(str, t) > 0

\* Cache.delete / MemoryCache.delete: Map.delete's answer and the Map left.
mapCacheDelete(store, key) ==
    [store |-> mapDelete(store, key), flag |-> key \in DOMAIN store]

\* Cache.size / MemoryCache.size: this.store.size
mapCacheSize(store) == Cardinality(DOMAIN store)

\* A cleanup that drops every entry, expired or not.
mapCacheCleanupAll(store, t) == [k \in {} |-> store[k]]

\* Cache.cleanup / MemoryCache.cleanup: the items with now > expires are deleted.
mapCacheCleanup(store, t) ==
    [k \in {x \in DOMAIN store : ~(t > store[x].expires)} |-> store[k]]

\* SCAN that matches every key of the store, whatever its prefix.
scanAll(kv, prefix, t) == {k \in DOMAIN kv : redisLive(kv[k], t)}

\* The SCAN loop with match `${prefix}:*`: the keys of the store under the prefix.
scan(kv, prefix, t) == {k \in DOMAIN kv : redisLive(kv[k], t) /\ k[1] = prefix}

\* RedisCache.delete: redis.del(k) > 0
redisCacheDelete(kv, k, t) ==
    [store |-> mapDelete(kv, k), flag |-> redisLive(mapGet(kv, k, NoString), t)]

\* RedisCache.clear: redis.del(keysToDelete) of the scanned keys.
redisCacheClear(kv, prefix, t) == [k \in DOMAIN kv \ scan(kv, prefix, t) |-> kv[k]]

\* RedisCache.size: the number of keys the SCAN loop counted.
redisCacheSize(kv, prefix, t) == Cardinality(scan(kv, prefix, t))

\* The operations of the deployed cache are switched off.
cacheDisabled == cacheClass # "RedisCache" /\ DISABLE_IN_MEMORY_CACHE

\* What cache.get(key) of namespace ns returns at this instant (null: a miss).
cacheGet(ns, key) ==
    IF cacheClass = "RedisCache"
    THEN redisCacheGet(mapGet(redisKV, <<ns, key>>, NoString), now)
    ELSE IF DISABLE_IN_MEMORY_CACHE THEN "null"
    ELSE mapCacheGet(mapGet(cacheStore[ns], key, NoItem), now).value

\* What cache.has(key) of namespace ns returns at this instant.
cacheHas(ns, key) ==
    IF cacheClass = "RedisCache"
    THEN redisCacheHas(mapGet(redisKV, <<ns, key>>, NoString), now)
    ELSE IF DISABLE_IN_MEMORY_CACHE THEN FALSE
    ELSE mapCacheHas(mapGet(cacheStore[ns], key, NoItem), now)

\* The set recorded for a key is still within its ttl at clock value t.
writeLive(w, ns, t) == w.exists /\ t <= w.at + effectiveTtl(w.ttl, defaultTTL(ns))

\* The keys of namespace ns whose last set is within its ttl.
liveKeys(ns) ==
    {k \in DOMAIN written : k[1] = ns /\ writeLive(written[k], ns, now)}

rlState == <<redis, limiters, memoryStore, redisStore, pc, call, lastResult,
             memHist, redisHist, isoMem, isoRedis>>

\* ---------------------------------------------------------------- cache actions
\* cache.set(key, value, ttl)
CacheSet(ns, key, value, ttl) ==
    /\ IF cacheClass = "RedisCache"
       THEN /\ redisKV' = mapSet(redisKV, <<ns, key>>,
                                   redisCacheSet(value, ttl, defaultTTL(ns), now))
            /\ UNCHANGED cacheStore
       ELSE /\ cacheStore' = IF DISABLE_IN_MEMORY_CACHE THEN cacheStore
                             ELSE [cacheStore EXCEPT ![ns] = mapSet(@, key,
                                      mapCacheSet(value, ttl, defaultTTL(ns), now))]
            /\ UNCHANGED redisKV
    /\ cacheResult' = [NoCacheResult EXCEPT !.status = "ok", !.op = "set",
                                            !.ns = ns, !.key = key]
    /\ written' = histSet(written, <<ns, key>>,
                      [exists |-> TRUE, value |-> value, ttl |-> ttl, at |-> now])
    /\ UNCHANGED <<now, production, revision>>
    /\ UNCHANGED rlState
    /\ UNCHANGED <<handlerVars, appVars>>

\* cache.get(key)
CacheGet(ns, key) ==
    LET g == mapCacheGet(mapGet(cacheStore[ns], key, NoItem), now)
        str == mapGet(redisKV, <<ns, key>>, NoString)
    IN  /\ IF cacheClass = "RedisCache"
           THEN /\ cacheResult' = [NoCacheResult EXCEPT
                      !.status = IF redisCacheGetOutcome(str, now).threw
                                 THEN "threw" ELSE "ok",
                      !.op = "get", !.ns = ns, !.key = key,
                      !.value = cacheGet(ns, key),
                      !.replied = TRUE,
                      !.raw = IF redisLive(str, now) THEN str.payload ELSE "nil"]
                /\ UNCHANGED cacheStore
           ELSE IF DISABLE_IN_MEMORY_CACHE
           THEN /\ cacheResult' = [NoCacheResult EXCEPT
                      !.status = "ok", !.op = "get", !.ns = ns, !.key = key]
                /\ UNCHANGED cacheStore
           ELSE /\ cacheResult' = [NoCacheResult EXCEPT
                      !.status = "ok", !.op = "get", !.ns = ns, !.key = key,
                      !.value = cacheGet(ns, key)]
                /\ cacheStore' = [cacheStore EXCEPT ![ns] = storePut(@, key, g.item)]
        /\ UNCHANGED <<now, production, revision, redisKV, written>>
        /\ UNCHANGED rlState
        /\ UNCHANGED <<handlerVars, appVars>>

\* cache.has(key)
CacheHas(ns, key) ==
    /\ cacheResult' = [NoCacheResult EXCEPT
          !.status = "ok", !.op = "has", !.ns = ns, !.key = key,
          !.flag = cacheHas(ns, key)]
    /\ UNCHANGED <<now, production, revision, cacheStore, redisKV, written>>
    /\ UNCHANGED rlState
    /\ UNCHANGED <<handlerVars, appVars>>

\* cache.delete(key): Map.delete's answer, or redis.del's count > 0
CacheDelete(ns, key) ==
    /\ IF cacheClass = "RedisCache"
       THEN /\ redisKV' = mapDelete(redisKV, <<ns, key>>)
            /\ cacheResult' = [NoCacheResult EXCEPT
                  !.status = "ok", !.op = "delete", !.ns = ns, !.key = key,
                  !.flag = redisCacheDelete(redisKV, <<ns, key>>, now).flag,
                  !.live = writeLive(mapGet(written, <<ns, key>>, NoWrite), ns, now)]
            /\ UNCHANGED cacheStore
       ELSE IF DISABLE_IN_MEMORY_CACHE
       THEN /\ cacheResult' = [NoCacheResult EXCEPT
                  !.status = "ok", !.op = "delete", !.ns = ns, !.key = key,
                  !.live = writeLive(mapGet(written, <<ns, key>>, NoWrite), ns, now)]
            /\ UNCHANGED <<cacheStore, redisKV>>
       ELSE /\ cacheStore' = [cacheStore EXCEPT ![ns] = mapDelete(@, key)]
            /\ cacheResult' = [NoCacheResult EXCEPT
                  !.status = "ok", !.op = "delete", !.ns = ns, !.key = key,
                  !.flag = mapCacheDelete(cacheStore[ns], key).flag,
                  !.live = writeLive(mapGet(written, <<ns, key>>, NoWrite), ns, now)]
            /\ UNCHANGED redisKV
    /\ written' = mapDelete(written, <<ns, key>>)
    /\ UNCHANGED <<now, production, revision>>
    /\ UNCHANGED rlState
    /\ UNCHANGED <<handlerVars, appVars>>

\* cache.size()
CacheSize(ns) ==
    /\ cacheResult' = [NoCacheResult EXCEPT
          !.status = "ok", !.op = "size", !.ns = ns,
          !.count = IF cacheClass = "RedisCache" THEN redisCacheSize(redisKV, ns, now)
                    ELSE IF DISABLE_IN_MEMORY_CACHE THEN 0
                    ELSE mapCacheSize(cacheStore[ns])]
    /\ UNCHANGED <<now, production, revision, cacheStore, redisKV, written>>
    /\ UNCHANGED rlState
    /\ UNCHANGED <<handlerVars, appVars>>

\* cache.clear()
CacheClear(ns) ==
    /\ IF cacheClass = "RedisCache"
       THEN /\ redisKV' = redisCacheClear(redisKV, ns, now)
            /\ UNCHANGED cacheStore
       ELSE /\ cacheStore' = IF DISABLE_IN_MEMORY_CACHE THEN cacheStore
                             ELSE [cacheStore EXCEPT ![ns] = EmptyMap]
            /\ UNCHANGED redisKV
    /\ cacheResult' = [NoCacheResult EXCEPT
          !.status = "ok", !.op = "clear", !.ns = ns,
          !.count = IF cacheClass = "RedisCache" THEN redisCacheSize(redisKV, ns, now)
                    ELSE IF DISABLE_IN_MEMORY_CACHE THEN 0
                    ELSE mapCacheSize(cacheStore[ns])]
    /\ written' = [k \in {x \in DOMAIN written : x[1] # ns} |-> written[k]]
    /\ UNCHANGED <<now, production, revision>>
    /\ UNCHANGED rlState
    /\ UNCHANGED <<handlerVars, appVars>>

\* The setInterval callback: cleanup() of the four caches (the store-backed
\* revision registers it only when the store is not configured).
PeriodicCleanup ==
    /\ revision = "map" \/ ~isRedisEnabled
    /\ cacheStore' = IF DISABLE_IN_MEMORY_CACHE THEN cacheStore
                     ELSE [n \in Namespaces |-> mapCacheCleanup(cacheStore[n], now)]
    /\ cacheResult' = [NoCacheResult EXCEPT !.status = "ok", !.op = "cleanup"]
    /\ UNCHANGED <<now, production, revision, redisKV, written>>
    /\ UNCHANGED rlState
    /\ UNCHANGED <<handlerVars, appVars>>

\* The store call of a RedisCache operation rejects: the operation has no
\* try/catch around it, so the caller's await rejects; nothing was stored.
CacheStoreReject(op, ns, key) ==
    /\ cacheClass = "RedisCache"
    /\ cacheResult' = [NoCacheResult EXCEPT !.status = "threw", !.op = op,
                                            !.ns = ns, !.key = key]
    /\ UNCHANGED <<now, production, revision, cacheStore, redisKV, written>>
    /\ UNCHANGED rlState
    /\ UNCHANGED <<handlerVars, appVars>>

\* The operations that take a key, and those on a whole namespace.
KeyedOps == {"set", "get", "has", "delete"}

UnkeyedOps == {"size", "clear"}

\* The cache operations on the namespaces NS and keys K.
StepCache(NS, K) ==
    \/ \E ns \in NS, key \in K, value \in Values, ttl \in 0..MaxTtl :
          CacheSet(ns, key, value, ttl)
    \/ \E ns \in NS, key \in K : CacheGet(ns, key)
    \/ \E ns \in NS, key \in K : CacheHas(ns, key)
    \/ \E ns \in NS, key \in K : CacheDelete(ns, key)
    \/ \E ns \in NS : CacheSize(ns)
    \/ \E ns \in NS : CacheClear(ns)
    \/ PeriodicCleanup
    \/ \E op \in KeyedOps, ns \in NS, key \in K :
          CacheStoreReject(op, ns, key)
    \/ \E op \in UnkeyedOps, ns \in NS : CacheStoreReject(op, ns, "none")
    \/ Tick

\* Either module, with or without the store, in production or not.
InitCache ==
    /\ Blank
    /\ redis \in BOOLEAN
    /\ limiters = {}
    /\ production \in BOOLEAN
    /\ revision \in {"map", "store"}

NextCache == StepCache({"event"}, CacheKeys)

SpecCache == InitCache /\ [][NextCache]_vars

\* ---------------------------------------------------------------- two namespaces
\* eventCache and userCache side by side, one key each.
EventAndUser == {"event", "user"}

NextNamespaces == StepCache(EventAndUser, {"k1"})

SpecNamespaces == InitCache /\ [][NextNamespaces]_vars

\* ---------------------------------------------------------------- invalidation
\* cacheKeys: the key strings the helpers and their callers build.
cacheKeys_event(id) == "event:" \o id

\* `events:${filters || 'all'}`: no filters is the empty string.
cacheKeys_events(filters) == "events:" \o (IF filters = "" THEN "all" ELSE filters)

cacheKeys_user(id) == "user:" \o id

cacheKeys_userByEmail(email) == "user:email:" \o email

cacheKeys_gallery(id) == "gallery:" \o id

cacheKeys_galleries(eventId) == "galleries:" \o eventId
\* image: (key) => `image:${key}`
cacheKeys_image(key) == "image:" \o key
\* coordination: (id) => `coordination:${id}`
cacheKeys_coordination(id) == "coordination:" \o id
\* instagramPosts: (accountId) => `instagram:${accountId}`
cacheKeys_instagramPosts(accountId) == "instagram:" \o accountId

\* Identifiers and list filters in use ("" is an argument not given).
Ids == {"7"}
Filters == {"", "upcoming"}

\* The keys under which eventCache may hold a view that includes event id.
eventViews(id) ==
    {cacheKeys_event(id), cacheKeys_galleries(id)} \cup {cacheKeys_events(f) : f \in Filters}

\* One awaited cache call of a helper.
deleteCall(ns, key) == [op |-> "delete", ns |-> ns, key |-> key]
clearCall(ns) == [op |-> "clear", ns |-> ns, key |-> "none"]

\* invalidateEventCache(eventId): the cache calls it makes, in order.
invalidateEventCache(eventId) ==
    IF eventId # ""
    THEN << deleteCall("event", cacheKeys_event(eventId)),
            deleteCall("event", cacheKeys_events("")),
            deleteCall("event", cacheKeys_galleries(eventId)) >>
    ELSE << clearCall("event") >>

\* invalidateUserCache(userId, email)
invalidateUserCache(userId, email) ==
    (IF userId # "" THEN << deleteCall("user", cacheKeys_user(userId)) >> ELSE << >>)
    \o (IF email # "" THEN << deleteCall("user", cacheKeys_userByEmail(email)) >> ELSE << >>)

\* invalidateGalleryCache(galleryId, eventId)
invalidateGalleryCache(galleryId, eventId) ==
    (IF galleryId # "" THEN << deleteCall("image", cacheKeys_gallery(galleryId)) >> ELSE << >>)
    \o (IF eventId # "" THEN << deleteCall("image", cacheKeys_galleries(eventId)) >> ELSE << >>)

helperCalls(helper, a, b) ==
    CASE helper = "invalidateEventCache" -> invalidateEventCache(a)
      [] helper = "invalidateUserCache" -> invalidateUserCache(a, b)
      [] OTHER -> invalidateGalleryCache(a, b)

\* The Maps after one cache call of a helper (none changes when switched off).
mapsAfter(maps, c) ==
    IF DISABLE_IN_MEMORY_CACHE THEN maps
    ELSE IF c.op = "clear" THEN [maps EXCEPT ![c.ns] = EmptyMap]
    ELSE [maps EXCEPT ![c.ns] = mapCacheDelete(@, c.key).store]

\* The store after one cache call of a helper.
storeAfter(kv, c, t) ==
    IF c.op = "clear" THEN redisCacheClear(kv, c.ns, t)
    ELSE redisCacheDelete(kv, <<c.ns, c.key>>, t).store

\* The set history after one cache call of a helper.
writtenAfter(w, c) ==
    IF c.op = "clear" THEN [k \in {x \in DOMAIN w : x[1] # c.ns} |-> w[k]]
    ELSE mapDelete(w, <<c.ns, c.key>>)

RECURSIVE mapsAfterCalls(_, _, _)
\* The Maps after the first n cache calls of a helper, in order.
mapsAfterCalls(maps, calls, n) ==
    IF n = 0 THEN maps ELSE mapsAfter(mapsAfterCalls(maps, calls, n - 1), calls[n])

RECURSIVE storeAfterCalls(_, _, _, _)
\* The store after the first n cache calls of a helper, in order.
storeAfterCalls(kv, calls, n, t) ==
    IF n = 0 THEN kv ELSE storeAfter(storeAfterCalls(kv, calls, n - 1, t), calls[n], t)

RECURSIVE writtenAfterCalls(_, _, _)
\* The set history after the first n cache calls of a helper, in order.
writtenAfterCalls(w, calls, n) ==
    IF n = 0 THEN w ELSE writtenAfter(writtenAfterCalls(w, calls, n - 1), calls[n])

\* A helper runs to its end: every cache call it awaits is made.
Invalidate(helper, a, b) ==
    LET calls == helperCalls(helper, a, b)
        n == Len(calls)
    IN  /\ IF cacheClass = "RedisCache"
           THEN /\ redisKV' = storeAfterCalls(redisKV, calls, n, now)
                /\ UNCHANGED cacheStore
           ELSE /\ cacheStore' = mapsAfterCalls(cacheStore, calls, n)
                /\ UNCHANGED redisKV
        /\ written' = writtenAfterCalls(written, calls, n)
        /\ cacheResult' = [NoCacheResult EXCEPT
              !.status = "ok", !.op = helper, !.key = a, !.count = n]
        /\ UNCHANGED <<now, production, revision>>
        /\ UNCHANGED rlState
        /\ UNCHANGED <<handlerVars, appVars>>

\* The store rejects the cache call after the first `done` ones: the helper has
\* no try/catch, so its promise rejects and the remaining calls are not made.
InvalidateReject(helper, a, b, done) ==
    LET calls == helperCalls(helper, a, b)
    IN  /\ cacheClass = "RedisCache"
        /\ done < Len(calls)
        /\ redisKV' = storeAfterCalls(redisKV, calls, done, now)
        /\ written' = writtenAfterCalls(written, calls, done)
        /\ cacheResult' = [NoCacheResult EXCEPT
              !.status = "threw", !.op = helper, !.key = a, !.count = done]
        /\ UNCHANGED <<now, production, revision, cacheStore>>
        /\ UNCHANGED rlState
        /\ UNCHANGED <<handlerVars, appVars>>

Helpers == {"invalidateEventCache", "invalidateUserCache", "invalidateGalleryCache"}

\* A helper's argument: an id, or none given.
IdArgs == Ids \cup {""}

\* The write paths: views of event "7" are cached and read, the helpers run.
NextInvalidate ==
    \/ \E key \in eventViews("7") : CacheSet("event", key, "obj", 0)
    \/ \E key \in eventViews("7") : CacheGet("event", key)
    \/ \E h \in Helpers, a \in IdArgs, b \in IdArgs : Invalidate(h, a, b)
    \/ \E h \in Helpers, a \in IdArgs, b \in IdArgs, done \in 0..2 :
          InvalidateReject(h, a, b, done)
    \/ Tick

SpecInvalidate == InitCache /\ [][NextInvalidate]_vars

\* ---------------------------------------------------------------- both backends
\* The same call made on a MemoryCache (the Map of namespace ns) and on a
\* RedisCache of the same defaultTTL and prefix ns: value, flag and count are
\* the MemoryCache's answer, storeValue, storeFlag and storeCount the RedisCache's.
BothSet(ns, key, value, ttl) ==
    /\ cacheStore' = [cacheStore EXCEPT ![ns] =
                          mapSet(@, key, mapCacheSet(value, ttl, defaultTTL(ns), now))]
    /\ redisKV' = mapSet(redisKV, <<ns, key>>, redisCacheSet(value, ttl, defaultTTL(ns), now))
    /\ cacheResult' = [NoCacheResult EXCEPT !.status = "both", !.op = "set",
                                            !.ns = ns, !.key = key]
    /\ written' = histSet(written, <<ns, key>>,
                      [exists |-> TRUE, value |-> value, ttl |-> ttl, at |-> now])

BothGet(ns, key) ==
    LET g == mapCacheGet(mapGet(cacheStore[ns], key, NoItem), now)
    IN  /\ cacheStore' = [cacheStore EXCEPT ![ns] = storePut(@, key, g.item)]
        /\ cacheResult' = [NoCacheResult EXCEPT
              !.status = "both", !.op = "get", !.ns = ns, !.key = key,
              !.value = g.value,
              !.storeValue = redisCacheGet(mapGet(redisKV, <<ns, key>>, NoString), now)]
        /\ UNCHANGED <<redisKV, written>>

BothHas(ns, key) ==
    /\ cacheResult' = [NoCacheResult EXCEPT
          !.status = "both", !.op = "has", !.ns = ns, !.key = key,
          !.flag = mapCacheHas(mapGet(cacheStore[ns], key, NoItem), now),
          !.storeFlag = redisCacheHas(mapGet(redisKV, <<ns, key>>, NoString), now)]
    /\ UNCHANGED <<cacheStore, redisKV, written>>

BothDelete(ns, key) ==
    LET m == mapCacheDelete(cacheStore[ns], key)
        r == redisCacheDelete(redisKV, <<ns, key>>, now)
    IN  /\ cacheStore' = [cacheStore EXCEPT ![ns] = m.store]
        /\ redisKV' = r.store
        /\ cacheResult' = [NoCacheResult EXCEPT
              !.status = "both", !.op = "delete", !.ns = ns, !.key = key,
              !.flag = m.flag, !.storeFlag = r.flag]
        /\ written' = mapDelete(written, <<ns, key>>)

BothSize(ns) ==
    /\ cacheResult' = [NoCacheResult EXCEPT
          !.status = "both", !.op = "size", !.ns = ns,
          !.count = mapCacheSize(cacheStore[ns]),
          !.storeCount = redisCacheSize(redisKV, ns, now)]
    /\ UNCHANGED <<cacheStore, redisKV, written>>

BothClear(ns) ==
    /\ cacheStore' = [cacheStore EXCEPT ![ns] = EmptyMap]
    /\ redisKV' = redisCacheClear(redisKV, ns, now)
    /\ cacheResult' = [NoCacheResult EXCEPT !.status = "both", !.op = "clear", !.ns = ns]
    /\ written' = [k \in {x \in DOMAIN written : x[1] # ns} |-> written[k]]

\* cleanup(): a sweep of the Map; RedisCache.cleanup does nothing.
BothCleanup(ns) ==
    /\ cacheStore' = [cacheStore EXCEPT ![ns] = mapCacheCleanup(@, now)]
    /\ cacheResult' = [NoCacheResult EXCEPT !.status = "both", !.op = "cleanup", !.ns = ns]
    /\ UNCHANGED <<redisKV, written>>

\* A call sequence on the keys of the event caches, with clock advances.
NextParity ==
    \/ /\ \/ \E key \in CacheKeys, value \in Values, ttl \in 0..MaxTtl :
                BothSet("event", key, value, ttl)
          \/ \E key \in CacheKeys : BothGet("event", key)
          \/ \E key \in CacheKeys : BothHas("event", key)
          \/ \E key \in CacheKeys : BothDelete("event", key)
          \/ BothSize("event")
          \/ BothClear("event")
          \/ BothCleanup("event")
       /\ UNCHANGED <<now, production, revision>>
       /\ UNCHANGED rlState
       /\ UNCHANGED <<handlerVars, appVars>>
    \/ Tick

\* Two fresh caches; the store double is configured, NODE_ENV is not production.
InitParity ==
    /\ Blank
    /\ redis = TRUE
    /\ limiters = {}
    /\ production = FALSE
    /\ revision = "store"

SpecParity == InitParity /\ [][NextParity]_vars

\* ---------------------------------------------------------------- withCache
\* The stored result recorded for a key is within its ttl at clock value t.
wrapLive(w, ns, t) == w.exists /\ t < w.at + effectiveTtl(w.ttl, defaultTTL(ns))

\* withCache(apiCache, keyGenerator, fn, ttl)(...args) up to the call of fn:
\* key = keyGenerator(...args), cached = await cache.get(key), and either
\* return cached or invoke fn.
WrapStart(p, key, ttl) ==
    LET cached == cacheGet("api", key)
        g == mapCacheGet(mapGet(cacheStore["api"], key, NoItem), now)
        w == mapGet(written, <<"api", key>>, NoWrite)
        memo == wrapLive(w, "api", now)
    IN  /\ wrapped[p].pc = "idle"
        /\ IF cached # "null"
           THEN /\ wrapResult' = [status |-> "ok", key |-> key, value |-> cached,
                                  invoked |-> FALSE, memo |-> memo,
                                  memoValue |-> w.value]
                /\ UNCHANGED wrapped
           ELSE /\ wrapped' = [wrapped EXCEPT ![p] =
                      [pc |-> "fn", key |-> key, ttl |-> ttl, memo |-> memo]]
                /\ wrapResult' = NoWrapResult
        /\ cacheStore' = IF cacheClass = "RedisCache" \/ DISABLE_IN_MEMORY_CACHE
                         THEN cacheStore
                         ELSE [cacheStore EXCEPT !["api"] = storePut(@, key, g.item)]
        /\ UNCHANGED <<now, production, revision, redisKV, cacheResult, written>>
        /\ UNCHANGED rlState
        /\ UNCHANGED <<handlerVars, notWrap>>

\* The rest of the wrapped call: fn resolves with result,
\* await cache.set(key, result, ttl), return result.
WrapFinish(p, result) ==
    LET key == wrapped[p].key
        ttl == wrapped[p].ttl
    IN  /\ wrapped[p].pc = "fn"
        /\ IF cacheClass = "RedisCache"
           THEN /\ redisKV' = mapSet(redisKV, <<"api", key>>,
                                 redisCacheSet(result, ttl, defaultTTL("api"), now))
                /\ UNCHANGED cacheStore
           ELSE /\ cacheStore' = IF DISABLE_IN_MEMORY_CACHE THEN cacheStore
                                 ELSE [cacheStore EXCEPT !["api"] = mapSet(@, key,
                                          mapCacheSet(result, ttl, defaultTTL("api"), now))]
                /\ UNCHANGED redisKV
        /\ written' = histSet(written, <<"api", key>>,
                          [exists |-> TRUE, value |-> result, ttl |-> ttl, at |-> now])
        /\ wrapResult' = [status |-> "ok", key |-> key, value |-> result,
                          invoked |-> TRUE, memo |-> wrapped[p].memo,
                          memoValue |-> "null"]
        /\ wrapped' = [wrapped EXCEPT ![p] = NoWrapped]
        /\ UNCHANGED <<now, production, revision, cacheResult>>
        /\ UNCHANGED rlState
        /\ UNCHANGED <<handlerVars, notWrap>>

\* fn rejects, or the store rejects cache.set: the wrapped call rejects and
\* nothing is stored.
WrapReject(p) ==
    /\ wrapped[p].pc = "fn"
    /\ wrapResult' = [NoWrapResult EXCEPT !.status = "threw", !.key = wrapped[p].key,
                                          !.invoked = TRUE]
    /\ wrapped' = [wrapped EXCEPT ![p] = NoWrapped]
    /\ UNCHANGED <<now, cacheVars>>
    /\ UNCHANGED rlState
    /\ UNCHANGED <<handlerVars, notWrap>>

NextWrap ==
    \/ \E p \in Procs, ttl \in 0..MaxTtl : WrapStart(p, "k1", ttl)
    \/ \E p \in Procs, result \in Values : WrapFinish(p, result)
    \/ \E p \in Procs : WrapReject(p)
    \/ CacheDelete("api", "k1")
    \/ CacheClear("api")
    \/ Tick

SpecWrap == InitCache /\ [][NextWrap]_vars

\* ---------------------------------------------------------------- RedisCache.clear
MaxPages == 2

\* The keys the store may hold, and the pages a full SCAN iteration walks.
ScanKeys == {<<"event", "k1">>, <<"event", "k2">>, <<"user", "k1">>}
Pages == 0..(MaxPages - 1)

\* redis.scan(cursor, { match: `${prefix}:*`, count: 100 }): the next cursor
\* (0 after the last page) and the live keys under the prefix on page cursor.
scanPage(kv, lay, cursor, prefix, t) ==
    [cursor |-> IF cursor + 1 \in Pages THEN cursor + 1 ELSE 0,
     keys |-> {k \in DOMAIN kv : /\ redisLive(kv[k], t)
                                 /\ k[1] = prefix
                                 /\ mapGet(lay, k, 0) = cursor}]

\* A loop condition that gives up after the first page.
scanLoopStopsAtOnce(cursor) == FALSE

\* } while (cursor !== 0);
scanLoopContinues(cursor) == cursor # 0

\* Some other client of the store sets a key (a RedisCache.set elsewhere).
ScanWriter(k) ==
    /\ redisKV' = mapSet(redisKV, k, redisCacheSet("obj", 0, defaultTTL(k[1]), now))
    /\ written' = histSet(written, k,
                      [exists |-> TRUE, value |-> "obj", ttl |-> 0, at |-> now])
    /\ clearing' = [clearing EXCEPT !.dirty = TRUE]
    /\ UNCHANGED <<now, production, revision, cacheStore, cacheResult, layout>>
    /\ UNCHANGED rlState
    /\ UNCHANGED <<handlerVars, notClear>>

\* RedisCache.clear() up to the loop: cursor = 0, keysToDelete = [].
ClearStart(ns) ==
    /\ clearing.pc \in {"idle", "done", "threw"}
    /\ clearing' = [NoClearing EXCEPT !.pc = "scan", !.ns = ns]
    /\ UNCHANGED <<now, cacheVars, layout>>
    /\ UNCHANGED rlState
    /\ UNCHANGED <<handlerVars, notClear>>

\* One turn of the do-while: reply = await redis.scan(cursor, ...),
\* cursor = reply[0], keysToDelete.push(...(reply[1] || [])), and the test.
ClearScan ==
    LET reply == scanPage(redisKV, layout, clearing.cursor, clearing.ns, now)
    IN  /\ clearing.pc = "scan"
        /\ clearing' = [clearing EXCEPT
              !.cursor = reply.cursor,
              !.keysToDelete = @ \cup reply.keys,
              !.requests = @ + 1,
              !.emptyPage = @ \/ reply.keys = {},
              !.pc = IF scanLoopContinues(reply.cursor) THEN "scan" ELSE "del"]
        /\ UNCHANGED <<now, cacheVars, layout>>
        /\ UNCHANGED rlState
        /\ UNCHANGED <<handlerVars, notClear>>

\* if (keysToDelete.length > 0) await redis.del(keysToDelete); and the return.
ClearDel ==
    /\ clearing.pc = "del"
    /\ redisKV' = [k \in DOMAIN redisKV \ clearing.keysToDelete |-> redisKV[k]]
    /\ written' = IF clearing.dirty THEN written
                  ELSE [k \in {x \in DOMAIN written : x[1] # clearing.ns} |-> written[k]]
    /\ clearing' = [clearing EXCEPT !.pc = "done"]
    /\ UNCHANGED <<now, production, revision, cacheStore, cacheResult, layout>>
    /\ UNCHANGED rlState
    /\ UNCHANGED <<handlerVars, notClear>>

\* The store rejects a scan or the del: clear has no try/catch, its caller's
\* await rejects.
ClearReject ==
    /\ clearing.pc \in {"scan", "del"}
    /\ clearing' = [clearing EXCEPT !.pc = "threw"]
    /\ UNCHANGED <<now, cacheVars, layout>>
    /\ UNCHANGED rlState
    /\ UNCHANGED <<handlerVars, notClear>>

\* The store-backed module in production with the store configured; any
\* iteration order.
InitClear ==
    /\ BlankState
    /\ layout \in [ScanKeys -> Pages]
    /\ slugUnique = FALSE
    /\ events = << >>
    /\ buildTime = FALSE
    /\ coordinations = EmptyMap
    /\ redis = TRUE
    /\ limiters = {}
    /\ production = TRUE
    /\ revision = "store"

ClearSteps == ClearScan \/ ClearDel \/ ClearReject

NextClear ==
    \/ \E k \in ScanKeys : ScanWriter(k)
    \/ ClearStart("event")
    \/ ClearSteps
    \/ Tick

SpecClear == InitClear /\ [][NextClear]_vars

\* A pending await of the clear call settles: the store answers or rejects.
SpecClearLive == SpecClear /\ WF_vars(ClearSteps)

\* ---------------------------------------------------------------- cleanup
\* cache.cleanup() called on one cache: Cache / MemoryCache delete the items
\* with now > expires, RedisCache.cleanup has an empty body.
CacheCleanup(ns) ==
    LET swept == mapCacheCleanup(cacheStore[ns], now)
        local == cacheClass # "RedisCache" /\ ~DISABLE_IN_MEMORY_CACHE
    IN  /\ cacheStore' = IF local THEN [cacheStore EXCEPT ![ns] = swept]
                         ELSE cacheStore
        /\ cacheResult' = [NoCacheResult EXCEPT
              !.status = "ok", !.op = "cleanup", !.ns = ns,
              !.count = IF local
                        THEN Cardinality(DOMAIN cacheStore[ns] \ DOMAIN swept)
                        ELSE 0]
        /\ UNCHANGED <<now, production, revision, redisKV, written>>
        /\ UNCHANGED rlState
        /\ UNCHANGED <<handlerVars, appVars>>

NextCleanup ==
    \/ StepCache({"event"}, CacheKeys)
    \/ CacheCleanup("event")

SpecCleanup == InitCache /\ [][NextCleanup]_vars

\* ---------------------------------------------------------------- stored payloads
\* Strings another client of the store may leave under a cache key: none is
\* a JSON text.
Payloads == {"{bad", ""}

\* Another client of the store writes a string of its own under a cache key.
ForeignSet(ns, key, payload) ==
    /\ cacheClass = "RedisCache"
    /\ redisKV' = mapSet(redisKV, <<ns, key>>,
                     [exists |-> TRUE, payload |-> payload,
                      expires |-> now + defaultTTL(ns)])
    /\ written' = mapDelete(written, <<ns, key>>)
    /\ cacheResult' = NoCacheResult
    /\ UNCHANGED <<now, production, revision, cacheStore>>
    /\ UNCHANGED rlState
    /\ UNCHANGED <<handlerVars, appVars>>

NextPayloads ==
    \/ StepCache({"event"}, {"k1"})
    \/ \E payload \in Payloads : ForeignSet("event", "k1", payload)

SpecPayloads == InitCache /\ [][NextPayloads]_vars

\* ---------------------------------------------------------------- cacheKeys
Builders == {"event", "events", "user", "userByEmail", "gallery", "galleries",
             "image", "coordination", "instagramPosts"}

\* Strings a caller may hand to a builder (every builder takes one string).
KeyArgs == {"", "7", "8", "all", "email:7", "s:7"}

\* cacheKeys[builder](arg)
cacheKey(builder, arg) ==
    CASE builder = "event" -> cacheKeys_event(arg)
      [] builder = "events" -> cacheKeys_events(arg)
      [] builder = "user" -> cacheKeys_user(arg)
      [] builder = "userByEmail" -> cacheKeys_userByEmail(arg)
      [] builder = "gallery" -> cacheKeys_gallery(arg)
      [] builder = "galleries" -> cacheKeys_galleries(arg)
      [] builder = "image" -> cacheKeys_image(arg)
      [] builder = "coordination" -> cacheKeys_coordination(arg)
      [] OTHER -> cacheKeys_instagramPosts(arg)

\* One call of a builder; the call before it is remembered.
BuildKey(builder, arg) ==
    /\ lastKey' = [builder |-> builder, arg |-> arg, key |-> cacheKey(builder, arg)]
    /\ prevKey' = lastKey
    /\ UNCHANGED <<now, cacheVars>>
    /\ UNCHANGED rlState
    /\ UNCHANGED <<handlerVars, notKey>>

NextBuilders == \E builder \in Builders, arg \in KeyArgs : BuildKey(builder, arg)

SpecBuilders == InitCache /\ [][NextBuilders]_vars

\* ---------------------------------------------------------------- POST /api/events
MaxEvents == 2

\* Titles and location names a request may carry, as the words of the text.
Titles == {<<"Gala">>, <<"gala", "!">>, <<"Gala", "1">>}
Locations == {"", " ", "1"}

\* locationName.trim()
trim(text) == IF text = " " THEN "" ELSE text

\* slugify's lower: true, on one word.
lowerWord(w) == IF w = "Gala" THEN "gala" ELSE w

\* slugify's strict: true: a word of punctuation leaves nothing.
strictWord(w) == IF w = "!" THEN "" ELSE w

RECURSIVE joinDash(_)
\* The words that are left, joined by "-".
joinDash(words) ==
    IF words = << >> THEN ""
    ELSE LET w == strictWord(lowerWord(Head(words)))
             rest == joinDash(Tail(words))
         IN  IF w = "" THEN rest
             ELSE IF rest = "" THEN w
             ELSE w \o "-" \o rest

\* createSlug(title, locationName)
createSlug(title, locationName) ==
    joinDash(IF trim(locationName) # "" THEN Append(title, trim(locationName))
             ELSE title)

\* `${counter}`
counterText(counter) == <<"1", "2", "3", "4", "5", "6">>[counter]

\* prisma.event.findFirst({ where: { slug } }) finds a row.
slugTaken(rows, slug) == \E i \in DOMAIN rows : rows[i].slug = slug

\* POST up to the loop: the session, the body and the owner are accepted,
\* slug = createSlug(title, locationName), counter = 1.
PostStart(p, title, locationName, status) ==
    /\ posts[p].pc = "idle"
    /\ posts' = [posts EXCEPT ![p] =
          [pc |-> "lookup", base |-> createSlug(title, locationName),
           slug |-> createSlug(title, locationName), counter |-> 1,
           status |-> status, startAt |-> now]]
    /\ postResponse' = NoPostResponse
    /\ UNCHANGED <<slugUnique, events, buildTime, archiveResult>>
    /\ UNCHANGED <<now, cacheVars>>
    /\ UNCHANGED rlState
    /\ UNCHANGED <<handlerVars, notEvent>>

\* POST returns early: no session or owner (401), a body the schema rejects
\* (400), a role that may not create events (403).
PostRefuse(p, code) ==
    /\ posts[p].pc = "idle"
    /\ postResponse' = [NoPostResponse EXCEPT !.status = code]
    /\ UNCHANGED <<slugUnique, events, posts, buildTime, archiveResult>>
    /\ UNCHANGED <<now, cacheVars>>
    /\ UNCHANGED rlState
    /\ UNCHANGED <<handlerVars, notEvent>>

\* One turn of while (true): existing = await findFirst({ where: { slug } });
\* break when there is none, else slug = `${base}-${counter}`, counter++.
PostLookup(p) ==
    /\ posts[p].pc = "lookup"
    /\ posts[p].counter <= MaxEvents + 1
    /\ posts' = [posts EXCEPT ![p] =
          IF ~slugTaken(events, posts[p].slug)
          THEN [@ EXCEPT !.pc = "create"]
          ELSE [@ EXCEPT !.slug = posts[p].base \o "-" \o counterText(posts[p].counter),
                         !.counter = @ + 1]]
    /\ UNCHANGED <<slugUnique, events, postResponse, buildTime, archiveResult>>
    /\ UNCHANGED <<now, cacheVars>>
    /\ UNCHANGED rlState
    /\ UNCHANGED <<handlerVars, notEvent>>

\* event = await prisma.event.create({ data }) and the 201 response (the image
\* updates between them touch no event's slug); a database that holds slugs
\* unique rejects the create and the handler, which catches nothing, fails.
PostCreate(p) ==
    /\ posts[p].pc = "create"
    /\ Len(events) < MaxEvents
    /\ IF slugUnique /\ slugTaken(events, posts[p].slug)
       THEN /\ postResponse' = [status |-> 500, slug |-> posts[p].slug]
            /\ UNCHANGED events
       ELSE /\ events' = Append(events,
                  [slug |-> posts[p].slug, status |-> posts[p].status,
                   startAt |-> posts[p].startAt])
            /\ postResponse' = [status |-> 201, slug |-> posts[p].slug]
    /\ posts' = [posts EXCEPT ![p] = NoPost]
    /\ UNCHANGED <<slugUnique, buildTime, archiveResult>>
    /\ UNCHANGED <<now, cacheVars>>
    /\ UNCHANGED rlState
    /\ UNCHANGED <<handlerVars, notEvent>>

\* An empty Event table in a database that may or may not hold slugs unique.
InitEvents ==
    /\ BlankState
    /\ layout = EmptyMap
    /\ redis = FALSE
    /\ limiters = {}
    /\ production = FALSE
    /\ revision = "store"
    /\ slugUnique \in BOOLEAN
    /\ events = << >>
    /\ buildTime = FALSE
    /\ coordinations = EmptyMap

\* The status a POST may ask for, and the answers of a refused POST.
PostStatuses == {"DRAFT", "PUBLISHED"}

RefusalCodes == {400, 401, 403}

NextEvents ==
    \/ \E p \in Procs, title \in Titles, locationName \in Locations,
          status \in PostStatuses : PostStart(p, title, locationName, status)
    \/ \E p \in Procs, code \in RefusalCodes : PostRefuse(p, code)
    \/ \E p \in Procs : PostLookup(p)
    \/ \E p \in Procs : PostCreate(p)

SpecEvents == InitEvents /\ [][NextEvents]_vars

\* ---------------------------------------------------------------- autoArchivePastEvents
MaxRows == 2

\* One day, in clock ticks.
DayMs == 2

Statuses == {"DRAFT", "PUBLISHED", "ARCHIVED"}

\* new Date(now.getFullYear(), now.getMonth(), now.getDate()) and its UTC
\* twin: the midnight that opens the day of t (the clock counts from one).
startOfToday(t) == (t \div DayMs) * DayMs

\* An updateMany whose where leaves the status out.
archivableAnyStatus(row, start) == row.startAt < start

\* where: { status: 'PUBLISHED', startAt: { lt: startOfToday } }
archivable(row, start) == row.status = "PUBLISHED" /\ row.startAt < start

\* prisma.event.updateMany({ where, data: { status: 'ARCHIVED' } }): the table
\* afterwards and the count of rows matched.
updateManyArchived(rows, start) ==
    [rows |-> [i \in DOMAIN rows |->
                  IF archivable(rows[i], start)
                  THEN [rows[i] EXCEPT !.status = "ARCHIVED"] ELSE rows[i]],
     count |-> Cardinality({i \in DOMAIN rows : archivable(rows[i], start)})]

\* autoArchivePastEvents() with the database answering.
ArchiveRun ==
    LET u == updateManyArchived(events, startOfToday(now))
    IN  /\ ~buildTime
        /\ events' = u.rows
        /\ archiveResult' = [status |-> "ok", count |-> u.count, at |-> now,
                             dbError |-> FALSE]
        /\ UNCHANGED <<slugUnique, posts, postResponse, buildTime>>
        /\ UNCHANGED <<now, cacheVars>>
        /\ UNCHANGED rlState
        /\ UNCHANGED <<handlerVars, notEvent>>

\* autoArchivePastEvents() when updateMany rejects: the catch returns 0.
ArchiveFails ==
    /\ ~buildTime
    /\ archiveResult' = [status |-> "ok", count |-> 0, at |-> now, dbError |-> TRUE]
    /\ UNCHANGED <<slugUnique, events, posts, postResponse, buildTime>>
    /\ UNCHANGED <<now, cacheVars>>
    /\ UNCHANGED rlState
    /\ UNCHANGED <<handlerVars, notEvent>>

\* autoArchivePastEvents() at build time: return 0 before any query.
ArchiveSkip ==
    /\ buildTime
    /\ archiveResult' = [status |-> "ok", count |-> 0, at |-> now, dbError |-> FALSE]
    /\ UNCHANGED <<slugUnique, events, posts, postResponse, buildTime>>
    /\ UNCHANGED <<now, cacheVars>>
    /\ UNCHANGED rlState
    /\ UNCHANGED <<handlerVars, notEvent>>

\* Another handler gives an event a status (publishing, archiving by hand).
EventSetStatus(i, status) ==
    /\ i \in DOMAIN events
    /\ events' = [events EXCEPT ![i].status = status]
    /\ archiveResult' = NoArchiveResult
    /\ UNCHANGED <<slugUnique, posts, postResponse, buildTime>>
    /\ UNCHANGED <<now, cacheVars>>
    /\ UNCHANGED rlState
    /\ UNCHANGED <<handlerVars, notEvent>>

\* Tables of up to MaxRows events of any status and start; at build time
\* there is no database and so no table.
InitArchive ==
    /\ BlankState
    /\ layout = EmptyMap
    /\ redis = FALSE
    /\ limiters = {}
    /\ production \in BOOLEAN
    /\ revision = "store"
    /\ slugUnique = FALSE
    /\ buildTime \in {FALSE, production}
    /\ \E n \in 0..MaxRows :
          \E st \in [1..n -> Statuses], sa \in [1..n -> 0..MaxTime] :
              events = [i \in 1..n |->
                          [slug |-> counterText(i), status |-> st[i], startAt |-> sa[i]]]
    /\ buildTime => events = << >>
    /\ coordinations = EmptyMap

NextArchive ==
    \/ ArchiveRun
    \/ ArchiveFails
    \/ ArchiveSkip
    \/ \E i \in 1..MaxRows, status \in Statuses : EventSetStatus(i, status)
    \/ Tick

SpecArchive == InitArchive /\ [][NextArchive]_vars

\* ---------------------------------------------------------------- share endpoint
CoordinationIds == {"c1", "c2"}

\* What a request may carry as [token]: slugs, share tokens, and a string that
\* is neither.
Tokens == {"s1", "s2", "t1", "zz"}

\* A where that leaves isArchived out.
shareableIgnoringArchive(row, token) ==
    /\ row.slug = token \/ row.shareToken = token
    /\ row.isActive

\* where: { OR: [{ slug: token }, { shareToken: token }], isActive: true,
\*          isArchived: false }
shareable(row, token) ==
    /\ row.slug = token \/ row.shareToken = token
    /\ row.isActive
    /\ ~row.isArchived

\* GET /api/coordination/share/[token]: findFirst answers one of the rows that
\* satisfy the where, or none (404).
ShareGet(token) ==
    LET found == {id \in DOMAIN coordinations : shareable(coordinations[id], token)}
    IN  /\ IF found = {}
           THEN shareResponse' = [status |-> 404, token |-> token, id |-> "none"]
           ELSE \E id \in found :
                   shareResponse' = [status |-> 200, token |-> token, id |-> id]
        /\ UNCHANGED coordinations
        /\ UNCHANGED <<now, cacheVars>>
        /\ UNCHANGED rlState
        /\ UNCHANGED <<handlerVars, notShare>>

\* GET when findFirst rejects: the catch answers 500.
ShareGetFails(token) ==
    /\ shareResponse' = [status |-> 500, token |-> token, id |-> "none"]
    /\ UNCHANGED coordinations
    /\ UNCHANGED <<now, cacheVars>>
    /\ UNCHANGED rlState
    /\ UNCHANGED <<handlerVars, notShare>>

\* The owner's handlers switch a coordination on or off, archive or restore it.
CoordinationSet(id, isActive, isArchived) ==
    /\ coordinations' = [coordinations EXCEPT
          ![id].isActive = isActive, ![id].isArchived = isArchived]
    /\ shareResponse' = NoShareResponse
    /\ UNCHANGED <<now, cacheVars>>
    /\ UNCHANGED rlState
    /\ UNCHANGED <<handlerVars, notShare>>

\* Two coordinations with any slugs, share tokens and flags.
InitShare ==
    /\ BlankState
    /\ layout = EmptyMap
    /\ redis = FALSE
    /\ limiters = {}
    /\ production = FALSE
    /\ revision = "store"
    /\ slugUnique = FALSE
    /\ events = << >>
    /\ buildTime = FALSE
    /\ coordinations \in [CoordinationIds ->
          [slug : {"s1", "s2"}, shareToken : {"t1", "s1"},
           isActive : BOOLEAN, isArchived : BOOLEAN]]

NextShare ==
    \/ \E token \in Tokens : ShareGet(token)
    \/ \E token \in Tokens : ShareGetFails(token)
    \/ \E id \in CoordinationIds, isActive \in BOOLEAN, isArchived \in BOOLEAN :
          CoordinationSet(id, isActive, isArchived)

SpecShare == InitShare /\ [][NextShare]_vars

\* ================================================================ claims

C2_PoliciesIndependent ==
    lastResult.status = "ok" =>
        /\ lastResult.success = lastResult.isoSuccess
        /\ lastResult.remaining = lastResult.isoRemaining

\* C3: every check call of a window, allowed or denied, reports the reset the
\* earlier calls of that window reported.
C3_SameResetInWindow ==
    (lastResult.status = "ok" /\ lastResult.prevReset # NoTime) =>
        lastResult.reset = lastResult.prevReset

\* C4: the stored count of a key equals the number of check calls made on it in
\* its window, denied calls included, in each process's map and in the store.
C4_CountEqualsCalls ==
    /\ \A p \in Procs : \A k \in DOMAIN memoryStore[p] :
          memoryStore[p][k].count = mapGet(memHist[p], k, NoHist).calls
    /\ \A k \in DOMAIN redisStore :
          redisStore[k].count = mapGet(redisHist, k, NoHist).calls

\* C5: a check call made after every reset reported for its key's window has
\* passed meets a fresh window: success, remaining = max - 1, reset one full
\* window after the call.
C5_FreshAfterReset ==
    (lastResult.status = "ok" /\ lastResult.afterReset) =>
        /\ lastResult.success
        /\ lastResult.remaining = lastResult.max - 1
        /\ lastResult.reset = lastResult.at + lastResult.windowMs

\* C6: a check call during which the store rejected incr, pexpire or pttl still
\* returns, and returns what the local-map limiter answers for that call.
C6_StoreFailureFallsBack ==
    lastResult.storeFailed =>
        /\ lastResult.status = "ok"
        /\ lastResult.success = lastResult.fbSuccess
        /\ lastResult.remaining = lastResult.fbRemaining

\* C7: within one window of a key of the shared store, the check calls that
\* returned success = TRUE never number more than the policy's max, whatever the
\* interleaving of the processes' store calls.
C7_GrantedWithinCeiling ==
    \A k \in DOMAIN redisHist, lim \in limiters : redisHist[k].granted <= lim.max

\* Two calls of different processes are in flight on the same window: the one
\* over the ceiling has just been denied, before the one under it has returned.
C7_Witness ==
    /\ lastResult.status = "ok" /\ lastResult.backend = "redis"
    /\ ~lastResult.success
    /\ lastResult.idx = lastResult.max + 1
    /\ \E q \in Procs : /\ pc[q] \in {"pexpire", "pttl"}
                         /\ call[q].key = lastResult.key
                         /\ call[q].at = lastResult.opened
                         /\ call[q].idx <= call[q].max

\* C8: the stored count and reset time of a key are those its own check calls
\* gave it, whatever calls were made on other keys: on a process's Map the
\* count is the number of the key's calls in its window (it stops at the
\* ceiling) and the reset time is that window's opening plus windowMs; in the
\* store the counter of a key whose window cannot have run out yet is there
\* and is the number of the key's calls.
C8_KeysDoNotInterfere ==
    /\ \A p \in Procs : \A k \in DOMAIN memHist[p] : \E lim \in limiters :
          mapGet(memoryStore[p], k, NoEntry) =
              [exists |-> TRUE,
               count |-> IF memHist[p][k].calls < lim.max
                         THEN memHist[p][k].calls ELSE lim.max,
               resetTime |-> memHist[p][k].at + lim.windowMs]
    /\ \A k \in DOMAIN redisHist :
          /\ (\A lim \in limiters : now < redisHist[k].at + lim.windowMs) =>
                k \in DOMAIN redisStore
          /\ k \in DOMAIN redisStore => redisStore[k].count = redisHist[k].calls

\* Key A is exhausted (the call just denied) while another key holds a window.
C8_Witness ==
    /\ lastResult.status = "ok" /\ ~lastResult.success
    /\ \E p \in Procs : \E k \in DOMAIN memoryStore[p] :
          /\ k # lastResult.key
          /\ lastResult.key \in DOMAIN memoryStore[p]
          /\ memoryStore[p][lastResult.key].count >= lastResult.max

\* C9: no limiter built from a zero or negative window or ceiling ever answers
\* a check call (such options are refused when the policy is built).
C9_MisconfigurationRejected ==
    lastResult.status = "ok" => (lastResult.windowMs > 0 /\ lastResult.max > 0)

\* A value JSON.stringify and JSON.parse give back unchanged.
jsonRepresentable(value) == parse(stringify(value)) = value

\* The set recorded for the key the last get or has was about.
lastWrite == mapGet(written, <<cacheResult.ns, cacheResult.key>>, NoWrite)

\* What a get or has that just returned must have answered, given the last
\* set(key, value, ttl) with ttl > 0 on its key: the value (TRUE) at the clock
\* value of the set, null (FALSE) once more than ttl has passed since.
answersLastWrite ==
    /\ now = lastWrite.at =>
          /\ cacheResult.op = "get" => cacheResult.value = lastWrite.value
          /\ cacheResult.op = "has" => cacheResult.flag
    /\ now > lastWrite.at + lastWrite.ttl =>
          /\ cacheResult.op = "get" => cacheResult.value = "null"
          /\ cacheResult.op = "has" => ~cacheResult.flag

afterWrite ==
    /\ cacheResult.status = "ok"
    /\ cacheResult.op \in {"get", "has"}
    /\ lastWrite.exists /\ lastWrite.ttl > 0

\* C10 as stated: for every key, value and ttl > 0, get returns the value and
\* has is TRUE immediately after set, and get returns absent and has is FALSE
\* once the ttl has elapsed.
C10_SetThenGet_Original == afterWrite => answersLastWrite

\* C10 as amended: the same, for the caches whose operations are not switched
\* off by DISABLE_IN_MEMORY_CACHE and for values JSON represents.
C10_SetThenGet ==
    (/\ afterWrite
     /\ cacheClass = "RedisCache" \/ ~DISABLE_IN_MEMORY_CACHE
     /\ jsonRepresentable(lastWrite.value)) => answersLastWrite

\* A get that returned the value just set, on the store-backed cache.
C10_Witness ==
    /\ afterWrite
    /\ cacheClass = "RedisCache"
    /\ cacheResult.op = "get" /\ cacheResult.value = "obj"
    /\ lastWrite.value = "obj" /\ now = lastWrite.at

\* C11: at every instant, has(key) is TRUE exactly when get(key) would return a
\* value (not the miss answer), for every namespace, key and stored value.
C11_HasIffGet ==
    \A ns \in Namespaces, key \in CacheKeys :
        cacheHas(ns, key) <=> (cacheGet(ns, key) # "null")

\* C12: size() returns the number of keys of the namespace whose last set is
\* within its ttl at the time of the call.
C12_SizeCountsLive ==
    (cacheResult.status = "ok" /\ cacheResult.op = "size" /\ ~cacheDisabled) =>
        cacheResult.count = Cardinality(liveKeys(cacheResult.ns))

\* C13: delete(key) returns TRUE exactly when the key's last set was within its
\* ttl just before the call, and a get of a key with no set since its last
\* delete returns the miss answer.
C13_DeleteReportsPresence ==
    /\ (cacheResult.status = "ok" /\ cacheResult.op = "delete" /\ ~cacheDisabled) =>
          (cacheResult.flag <=> cacheResult.live)
    /\ (cacheResult.status = "ok" /\ cacheResult.op = "get" /\ ~lastWrite.exists) =>
          cacheResult.value = "null"

\* The stored entry of a key of a namespace, in the Map or in the store.
entryOf(ns, key) ==
    IF cacheClass = "RedisCache" THEN mapGet(redisKV, <<ns, key>>, NoString)
    ELSE mapGet(cacheStore[ns], key, NoItem)

\* C14: a clear() of one namespace leaves no entry of that namespace and leaves
\* every entry of every other namespace as it was, value and expiry.
C14_ClearOwnNamespace ==
    [][ \A ns \in Namespaces :
          (cacheResult'.status = "ok" /\ cacheResult'.op = "clear"
             /\ cacheResult'.ns = ns) =>
                /\ \A key \in CacheKeys : ~(entryOf(ns, key)').exists
                /\ \A other \in Namespaces \ {ns}, key \in CacheKeys :
                      entryOf(other, key)' = entryOf(other, key) ]_vars

\* A clear of the event namespace removed an entry while userCache holds one,
\* in the shared store.
C14_Witness ==
    /\ cacheResult.status = "ok" /\ cacheResult.op = "clear"
    /\ cacheResult.ns = "event" /\ cacheResult.count > 0
    /\ cacheClass = "RedisCache"
    /\ <<"user", "k1">> \in DOMAIN redisKV

\* C15: while DISABLE_IN_MEMORY_CACHE is set, get returns the miss answer, has
\* and delete return FALSE, size returns 0 and no Map holds an item, whether
\* the store is configured or not.
C15_DisabledIsNoOp ==
    DISABLE_IN_MEMORY_CACHE =>
        /\ cacheResult.status = "ok" =>
              /\ cacheResult.op = "get" => cacheResult.value = "null"
              /\ cacheResult.op \in {"has", "delete"} => ~cacheResult.flag
              /\ cacheResult.op = "size" => cacheResult.count = 0
        /\ \A ns \in Namespaces : cacheStore[ns] = EmptyMap

\* C16: no cache operation throws: a get, set, delete, has, size or clear whose
\* store call failed still returns to its caller.
C16_StoreErrorsSwallowed ==
    cacheResult.op \in {"get", "set", "delete", "has", "size", "clear"} =>
        cacheResult.status # "threw"

\* C17: invalidateEventCache, invalidateUserCache and invalidateGalleryCache
\* always resolve: a delete or clear the store rejected does not make them throw.
C17_InvalidationNeverThrows ==
    cacheResult.op \in Helpers => cacheResult.status # "threw"

\* C19: once invalidateEventCache(eventId) has completed, eventCache serves none
\* of the views that may include the event: its own key, its galleries key and
\* every list key, filtered or not; with no eventId it serves nothing at all.
C19_NoStaleEventView ==
    (cacheResult.status = "ok" /\ cacheResult.op = "invalidateEventCache") =>
        \A id \in Ids : \A key \in eventViews(id) : cacheGet("event", key) = "null"

\* C18: every call of a sequence of set, get, delete, clear, has, size and
\* cleanup calls with clock advances returns the same on the local-map cache
\* and on the store-backed cache.
C18_BackendParity ==
    cacheResult.status = "both" =>
        /\ cacheResult.value = cacheResult.storeValue
        /\ cacheResult.flag = cacheResult.storeFlag
        /\ cacheResult.count = cacheResult.storeCount

\* C20: a video upload request the limiter denied is answered 429 with a
\* Retry-After that is a non-negative number of seconds and with the limit,
\* remaining and reset headers; its form is not parsed and nothing is uploaded.
C20_DeniedUploadAnswered429 ==
    response.denied =>
        /\ response.status = 429
        /\ response.retryAfter >= 0
        /\ {"Retry-After", "X-RateLimit-Limit", "X-RateLimit-Remaining",
             "X-RateLimit-Reset"} \subseteq response.headers
        /\ ~response.parsed /\ ~response.uploaded

\* C21: every counter in the shared store carries an expiry, unless the call
\* that created it is still on its way to set one; so no counter outlives its
\* window for ever, whatever call failed in between.
C21_CounterCarriesExpiry ==
    \A k \in DOMAIN redisStore :
        redisStore[k].expires = NoTime =>
            \E p \in Procs : pc[p] = "pexpire" /\ call[p].key = k

\* C22: every result a limiter returns has limit = max, 0 <= remaining <= limit,
\* remaining = 0 when success is FALSE, and a reset not earlier than the clock
\* value the call read.
C22_ResultWellFormed ==
    lastResult.status = "ok" =>
        /\ lastResult.limit = lastResult.max
        /\ 0 <= lastResult.remaining /\ lastResult.remaining <= lastResult.limit
        /\ ~lastResult.success => lastResult.remaining = 0
        /\ lastResult.reset >= lastResult.at

\* C23: withCache memoises per key: a wrapped call made while a stored result
\* for its key is within its ttl (no delete or clear since) returns that result
\* and does not invoke the wrapped function, whatever the result (null too),
\* and two calls for one key never both have the function running.
C23_Memoised ==
    /\ \A p \in Procs : wrapped[p].pc = "fn" => ~wrapped[p].memo
    /\ wrapResult.status = "ok" /\ wrapResult.memo =>
          ~wrapResult.invoked /\ wrapResult.value = wrapResult.memoValue
    /\ \A p, q \in Procs :
          p # q /\ wrapped[p].pc = "fn" /\ wrapped[q].pc = "fn" =>
              wrapped[p].key # wrapped[q].key

\* C24: RedisCache.clear asks for pages until the store answers cursor 0 and
\* only then deletes; a clear that has started ends (it returns or rejects);
\* and when it has returned with no write to the store since it started, no
\* live key of its prefix is left, however many pages there were and whether
\* or not some were empty.
C24_ClearPagesToTheEnd ==
    /\ [](clearing.pc \in {"del", "done"} => clearing.cursor = 0)
    /\ [](clearing.pc = "scan" /\ clearing.requests > 0 => clearing.cursor # 0)
    /\ [](clearing.pc = "done" /\ ~clearing.dirty =>
            scan(redisKV, clearing.ns, now) = {})
    /\ (clearing.pc = "scan") ~> (clearing.pc \in {"done", "threw"})

C24_Witness ==
    /\ clearing.pc = "done" /\ ~clearing.dirty
    /\ clearing.requests >= 2
    /\ clearing.emptyPage
    /\ clearing.keysToDelete # {}

\* C25: a cleanup (called directly or by the periodic sweep) on the local map
\* removes the entries with now > expires and no other, and leaves every other
\* entry as it was; it never changes the shared store, and on RedisCache it
\* changes nothing at all; the periodic sweep runs only on the local map.
C25_CleanupRemovesExpiredOnly ==
    [][cacheResult'.op = "cleanup" /\ cacheResult'.status = "ok" =>
        /\ redisKV' = redisKV
        /\ cacheClass = "RedisCache" => cacheStore' = cacheStore
        /\ cacheResult'.ns = "none" => cacheClass # "RedisCache"
        /\ \A ns \in Namespaces :
              /\ DOMAIN cacheStore'[ns] \subseteq DOMAIN cacheStore[ns]
              /\ \A k \in DOMAIN cacheStore[ns] :
                    IF now > cacheStore[ns][k].expires
                       /\ cacheResult'.ns \in {ns, "none"}
                    THEN k \notin DOMAIN cacheStore'[ns]
                    ELSE /\ k \in DOMAIN cacheStore'[ns]
                         /\ cacheStore'[ns][k] = cacheStore[ns][k]
      ]_vars

C25_Witness ==
    /\ cacheResult.op = "cleanup" /\ cacheResult.status = "ok"
    /\ cacheResult.count >= 1
    /\ \E k \in DOMAIN cacheStore["event"] : now <= cacheStore["event"][k].expires

\* C26: when the store answers a get with a string that is not a JSON text,
\* RedisCache.get returns null without throwing, and the stored entry stays
\* as it was.
C26_MalformedPayloadIsMiss ==
    [][cacheResult'.op = "get" /\ cacheResult'.replied
          /\ cacheResult'.raw # "nil" /\ parseThrows(cacheResult'.raw) =>
        /\ cacheResult'.status = "ok"
        /\ cacheResult'.value = "null"
        /\ redisKV' = redisKV
      ]_vars

C26_Witness ==
    /\ cacheResult.op = "get" /\ cacheResult.replied
    /\ cacheResult.raw = "{bad"
    /\ cacheResult.status = "ok"
    /\ redisLive(mapGet(redisKV, <<"event", "k1">>, NoString), now)

\* C27: the same builder with the same argument yields the same key, and two
\* different builders never yield the same key, whatever their arguments.
C27_KeysCollisionFree ==
    lastKey.builder # "none" /\ prevKey.builder # "none" =>
        /\ lastKey.builder = prevKey.builder /\ lastKey.arg = prevKey.arg =>
              lastKey.key = prevKey.key
        /\ lastKey.builder # prevKey.builder => lastKey.key # prevKey.key

\* C28: no two rows of the Event table have the same slug, however the POST
\* requests that created them interleaved.
C28_SlugsUnique ==
    \A i, j \in DOMAIN events : i # j => events[i].slug # events[j].slug

\* C29: a call of autoArchivePastEvents that reaches the database turns every
\* PUBLISHED event that starts before today's midnight into ARCHIVED and
\* changes no other row; the number it returns is the number of rows it
\* changed; a call on the day of an earlier call, with no write in between,
\* changes nothing; a call whose query fails returns 0 and changes nothing.
C29_ArchivesExactlyPastPublished ==
    [][archiveResult'.status = "ok" /\ ~UNCHANGED <<archiveResult, events>> =>
        /\ DOMAIN events' = DOMAIN events
        /\ \A i \in DOMAIN events :
              IF /\ events[i].status = "PUBLISHED"
                 /\ events[i].startAt < (now \div DayMs) * DayMs
                 /\ ~archiveResult'.dbError
              THEN events'[i] = [events[i] EXCEPT !.status = "ARCHIVED"]
              ELSE events'[i] = events[i]
        /\ archiveResult'.count =
              Cardinality({i \in DOMAIN events : events'[i] # events[i]})
        /\ archiveResult'.dbError => archiveResult'.count = 0
        /\ ( /\ archiveResult.status = "ok" /\ ~archiveResult.dbError
             /\ archiveResult.at \div DayMs = now \div DayMs )
           => events' = events /\ archiveResult'.count = 0
      ]_vars

C29_Witness ==
    /\ archiveResult.status = "ok" /\ archiveResult.count >= 1
    /\ archiveResult.at = now
    /\ \E i \in DOMAIN events : events[i].status = "PUBLISHED"
    /\ \E i \in DOMAIN events : events[i].status = "ARCHIVED"

====
